---- MODULE Spec2Model ----
(***************************************************************************)
(* Portfolio ledger of finance_mcp_server: the four SQLite tables          *)
(* (transactions, positions, realized_pnl, price_cache), the operations of *)
(* database/models.py on them, and the buy/sell tools of                   *)
(* portfolio_server.py.                                                    *)
(*                                                                         *)
(* Conventions of the model:                                               *)
(*  - a str is a sequence of one-character strings, so that upper() and    *)
(*    strip() are computed and not assumed;                                *)
(*  - a REAL column / Python float is an exact rational [n, d] in lowest   *)
(*    terms (d > 0); float rounding is not modelled;                       *)
(*  - time is a discrete clock counting minutes of the reference (VN)     *)
(*    timezone; date/time strings and CURRENT_TIMESTAMP are the clock's    *)
(*    value when the statement runs, at the clock's resolution.            *)
(***************************************************************************)
EXTENDS Integers, Sequences, FiniteSets, TLC

(***************************************************************************)
(* Bounds of the model.                                                    *)
(***************************************************************************)
MaxOps == 3        \* rows ever inserted into transactions (AUTOINCREMENT value)
MaxClock == 5      \* minutes that pass on the clock
MaxSells == 5      \* sells recorded before the summary is asked for

VARIABLES
    transactions,      \* table transactions: sequence of rows in rowid order
    positions,         \* table positions: function ticker -> row (PRIMARY KEY ticker)
    realized_pnl,      \* table realized_pnl: sequence of rows in rowid order
    price_cache,       \* table price_cache: function ticker -> row (PRIMARY KEY ticker)
    sqlite_sequence,   \* AUTOINCREMENT counters of transactions and realized_pnl
    clock,             \* the wall clock, in the reference (VN) timezone
    host_offset,       \* the host's local time minus the reference time
    last,              \* the last call made on the ledger and what it returned
    pc,                \* per connection: the statement add_transaction runs next
    call,              \* per connection: the arguments of its add_transaction
    txn,               \* per connection: the database as its open transaction sees it
    lock,              \* the connection holding the write lock of the file, or 0
    hist,              \* the calls that returned success, in the order they committed
    lastRead           \* the last query made on a connection of its own, and its rows

conns == <<pc, call, txn, lock, hist, lastRead>>

vars == <<transactions, positions, realized_pnl, price_cache, sqlite_sequence,
          clock, host_offset, last, conns>>

tables == <<transactions, positions, realized_pnl, price_cache, sqlite_sequence>>

(***************************************************************************)
(* Strings: str.upper() and str.strip().                                   *)
(***************************************************************************)
LowerLetters == <<"a","b","c","d","e","f","g","h","i","j","k","l","m",
                  "n","o","p","q","r","s","t","u","v","w","x","y","z">>
UpperLetters == <<"A","B","C","D","E","F","G","H","I","J","K","L","M",
                  "N","O","P","Q","R","S","T","U","V","W","X","Y","Z">>

ToUpper == [c \in {LowerLetters[i] : i \in 1..Len(LowerLetters)} |->
               UpperLetters[CHOOSE i \in 1..Len(LowerLetters) : LowerLetters[i] = c]]

UpperChar(c) == IF c \in DOMAIN ToUpper THEN ToUpper[c] ELSE c

Upper(s) == [i \in 1..Len(s) |-> UpperChar(s[i])]

IsSpace(c) == c = " "

RECURSIVE LStrip(_)
LStrip(s) == IF s # <<>> /\ IsSpace(Head(s)) THEN LStrip(Tail(s)) ELSE s

RECURSIVE RStrip(_)
RStrip(s) ==
    IF s # <<>> /\ IsSpace(s[Len(s)]) THEN RStrip(SubSeq(s, 1, Len(s) - 1)) ELSE s

Strip(s) == RStrip(LStrip(s))

VN == <<"V","N">>
US == <<"U","S">>
BUY == <<"B","U","Y">>
SELL == <<"S","E","L","L">>

(***************************************************************************)
(* Floats as exact rationals.                                              *)
(***************************************************************************)
Abs(x) == IF x < 0 THEN -x ELSE x

RECURSIVE Gcd(_, _)
Gcd(a, b) == IF b = 0 THEN a ELSE Gcd(b, a % b)

Rat(n, d) ==
    LET s == IF d < 0 THEN -1 ELSE 1
        g == Gcd(Abs(n), Abs(d))
    IN  [n |-> (s * n) \div g, d |-> (s * d) \div g]

RInt(i) == [n |-> i, d |-> 1]
\* Common factors are taken out before the products are formed
RAdd(x, y) ==
    LET g == Gcd(x.d, y.d)
    IN  Rat(x.n * (y.d \div g) + y.n * (x.d \div g), (x.d \div g) * y.d)
RSub(x, y) == RAdd(x, [n |-> -y.n, d |-> y.d])
RMul(x, y) ==
    LET g == Gcd(Abs(x.n), y.d)
        h == Gcd(Abs(y.n), x.d)
    IN  Rat((x.n \div g) * (y.n \div h), (x.d \div h) * (y.d \div g))
RDiv(x, y) == RMul(x, [n |-> IF y.n < 0 THEN -y.d ELSE y.d, d |-> Abs(y.n)])
RLess(x, y) == x.n * y.d < y.n * x.d
RPos(x) == x.n > 0

(***************************************************************************)
(* The clock: get_vn_datetime() formats the current time as a date string  *)
(* and a time-of-day string; CURRENT_TIMESTAMP is the same instant.        *)
(***************************************************************************)
MinutesPerDay == 1440

get_vn_datetime(now) == [date |-> now \div MinutesPerDay, time |-> now % MinutesPerDay]

(***************************************************************************)
(* The database as a value: what a connection reads and writes.  DB is the *)
(* committed content of the file.                                          *)
(***************************************************************************)
DB == [transactions |-> transactions, positions |-> positions,
       realized_pnl |-> realized_pnl, price_cache |-> price_cache,
       sqlite_sequence |-> sqlite_sequence]

NoRows == [k \in {} |-> k]

EmptyDB == [transactions |-> <<>>, positions |-> NoRows, realized_pnl |-> <<>>,
            price_cache |-> NoRows,
            sqlite_sequence |-> [transactions |-> 0, realized_pnl |-> 0]]

\* Mutant: the quantity check of transactions as loose as the one of positions
TransactionsCheckLoose(row) ==
    /\ row.type \in {BUY, SELL}
    /\ row.quantity >= 0
    /\ RPos(row.price)
    /\ row.market \in {VN, US}

\* CHECK constraints of CREATE TABLE transactions / positions
TransactionsCheck(row) ==
    /\ row.type \in {BUY, SELL}
    /\ row.quantity > 0
    /\ RPos(row.price)
    /\ row.market \in {VN, US}

PositionsCheck(row) ==
    /\ row.quantity >= 0
    /\ RPos(row.avg_buy_price)
    /\ row.market \in {VN, US}

\* A function with one key added or replaced / removed (INSERT, UPDATE, DELETE by key)
Put(f, k, v) == [x \in (DOMAIN f) \cup {k} |-> IF x = k THEN v ELSE f[x]]
Drop(f, k) == [x \in (DOMAIN f) \ {k} |-> f[x]]

\* What a statement gives back: the database after it, or the exception it raised.
\* (pnl and pnl_percent are the realized P&L _handle_sell returns.)
Done(db) == [raised |-> "", held |-> 0, requested |-> 0, db |-> db,
             pnl |-> RInt(0), pnl_percent |-> RInt(0)]
Raise(e, db) == [Done(db) EXCEPT !.raised = e]

\* INSERT INTO transactions (...) VALUES (...)
InsertTransaction(db, ticker, type, quantity, price, dt, market, notes, now) ==
    LET row == [id |-> db.sqlite_sequence.transactions + 1,
                ticker |-> ticker, type |-> type, quantity |-> quantity,
                price |-> price, date |-> dt.date, time |-> dt.time,
                market |-> market, notes |-> notes, created_at |-> now]
    IN  IF TransactionsCheck(row)
        THEN Done([db EXCEPT !.transactions = Append(@, row),
                             !.sqlite_sequence.transactions = row.id])
        ELSE Raise("IntegrityError", db)

\* INSERT INTO positions (ticker, quantity, avg_buy_price, market)
InsertPosition(db, ticker, quantity, price, market, now) ==
    LET row == [quantity |-> quantity, avg_buy_price |-> price, market |-> market,
                last_updated |-> now]
    IN  IF ticker \in DOMAIN db.positions \/ ~PositionsCheck(row)
        THEN Raise("IntegrityError", db)
        ELSE Done([db EXCEPT !.positions = Put(@, ticker, row)])

\* UPDATE positions SET quantity = ?, avg_buy_price = ?, last_updated = CURRENT_TIMESTAMP
UpdatePositionBuy(db, ticker, new_qty, new_avg_price, now) ==
    LET row == [db.positions[ticker] EXCEPT !.quantity = new_qty,
                                            !.avg_buy_price = new_avg_price,
                                            !.last_updated = now]
    IN  IF PositionsCheck(row)
        THEN Done([db EXCEPT !.positions = Put(@, ticker, row)])
        ELSE Raise("IntegrityError", db)

\* Mutant: the sell also rescales the average so that the total cost stays the same
UpdatePositionSellKeepCost(db, ticker, new_qty, now) ==
    LET old == db.positions[ticker]
        row == [old EXCEPT !.quantity = new_qty, !.last_updated = now,
                           !.avg_buy_price = IF new_qty > 0
                                             THEN RDiv(RMul(@, RInt(old.quantity)), RInt(new_qty))
                                             ELSE @]
    IN  IF PositionsCheck(row)
        THEN Done([db EXCEPT !.positions = Put(@, ticker, row)])
        ELSE Raise("IntegrityError", db)

\* UPDATE positions SET quantity = ?, last_updated = CURRENT_TIMESTAMP
UpdatePositionSell(db, ticker, new_qty, now) ==
    LET row == [db.positions[ticker] EXCEPT !.quantity = new_qty, !.last_updated = now]
    IN  IF PositionsCheck(row)
        THEN Done([db EXCEPT !.positions = Put(@, ticker, row)])
        ELSE Raise("IntegrityError", db)

\* Mutant: the DELETE without its WHERE clause
DeleteEveryPosition(db, ticker) == Done([db EXCEPT !.positions = NoRows])

\* DELETE FROM positions WHERE ticker = ?
DeletePosition(db, ticker) == Done([db EXCEPT !.positions = Drop(@, ticker)])

\* Mutant: one realized_pnl row per ticker, replaced by the ticker's next sell
ReplaceRealizedPnl(db, ticker, quantity, buy_price, sell_price, pnl, pnl_percent, dt, now) ==
    LET row == [id |-> db.sqlite_sequence.realized_pnl + 1,
                ticker |-> ticker, quantity |-> quantity, buy_price |-> buy_price,
                sell_price |-> sell_price, pnl |-> pnl, pnl_percent |-> pnl_percent,
                sell_date |-> dt.date, sell_time |-> dt.time, created_at |-> now]
        others == SelectSeq(db.realized_pnl, LAMBDA r : r.ticker # ticker)
    IN  Done([db EXCEPT !.realized_pnl = Append(others, row),
                        !.sqlite_sequence.realized_pnl = row.id])

\* Mutant: sell_date and sell_time left to the database clock, which is in UTC
InsertRealizedPnlUtc(db, ticker, quantity, buy_price, sell_price, pnl, pnl_percent, dt, now) ==
    LET utc == get_vn_datetime(now - 420)
        row == [id |-> db.sqlite_sequence.realized_pnl + 1,
                ticker |-> ticker, quantity |-> quantity, buy_price |-> buy_price,
                sell_price |-> sell_price, pnl |-> pnl, pnl_percent |-> pnl_percent,
                sell_date |-> utc.date, sell_time |-> utc.time, created_at |-> now]
    IN  Done([db EXCEPT !.realized_pnl = Append(@, row),
                        !.sqlite_sequence.realized_pnl = row.id])

\* INSERT INTO realized_pnl (...) VALUES (...)
InsertRealizedPnl(db, ticker, quantity, buy_price, sell_price, pnl, pnl_percent, dt, now) ==
    LET row == [id |-> db.sqlite_sequence.realized_pnl + 1,
                ticker |-> ticker, quantity |-> quantity, buy_price |-> buy_price,
                sell_price |-> sell_price, pnl |-> pnl, pnl_percent |-> pnl_percent,
                sell_date |-> dt.date, sell_time |-> dt.time, created_at |-> now]
    IN  Done([db EXCEPT !.realized_pnl = Append(@, row),
                        !.sqlite_sequence.realized_pnl = row.id])

(***************************************************************************)
(* _handle_buy and _handle_sell, on the connection's view of the database. *)
(***************************************************************************)
\* Mutant: the plain mean of the old average and the new price
MeanOfPrices(old_qty, old_avg_price, quantity, price) ==
    RDiv(RAdd(old_avg_price, price), RInt(2))

\* new_avg = (old_qty * old_avg + quantity * price) / (old_qty + quantity)
AverageCost(old_qty, old_avg_price, quantity, price) ==
    RDiv(RAdd(RMul(RInt(old_qty), old_avg_price), RMul(RInt(quantity), price)),
         RInt(old_qty + quantity))

\* Mutant: the UPDATE of a further buy also sets market to the order's
BuyRetagsPosition(db, ticker, quantity, price, market, now) ==
    IF ticker \notin DOMAIN db.positions
    THEN InsertPosition(db, ticker, quantity, price, market, now)
    ELSE LET existing == db.positions[ticker]
             new_qty == existing.quantity + quantity
             new_avg_price == AverageCost(existing.quantity, existing.avg_buy_price,
                                          quantity, price)
             u == UpdatePositionBuy(db, ticker, new_qty, new_avg_price, now)
         IN  IF u.raised # "" THEN u
             ELSE Done([u.db EXCEPT !.positions[ticker].market = market])

_handle_buy(db, ticker, quantity, price, market, now) ==
    IF ticker \notin DOMAIN db.positions
    THEN InsertPosition(db, ticker, quantity, price, market, now)
    ELSE LET existing == db.positions[ticker]
             new_qty == existing.quantity + quantity
             new_avg_price == AverageCost(existing.quantity, existing.avg_buy_price,
                                          quantity, price)
         IN  UpdatePositionBuy(db, ticker, new_qty, new_avg_price, now)

\* Mutant: the P&L of one share, not multiplied by the quantity sold
PnlPerShare(sell_price, avg_buy_price, quantity) == RSub(sell_price, avg_buy_price)

\* pnl = (sell_price - avg_buy_price) * quantity
RealizedPnl(sell_price, avg_buy_price, quantity) ==
    RMul(RSub(sell_price, avg_buy_price), RInt(quantity))

\* pnl_percent = ((sell_price - avg_buy_price) / avg_buy_price) * 100
RealizedPnlPercent(sell_price, avg_buy_price) ==
    RMul(RDiv(RSub(sell_price, avg_buy_price), avg_buy_price), RInt(100))

\* Mutant: a sold-out position is kept with quantity 0
KeepSoldOutPosition(db, ticker, new_qty, now) == UpdatePositionSell(db, ticker, new_qty, now)

\* The position change of a sell: the row is deleted when nothing is left.
ReducePosition(db, ticker, new_qty, now) ==
    IF new_qty = 0
    THEN DeletePosition(db, ticker)
    ELSE UpdatePositionSell(db, ticker, new_qty, now)

\* Mutant: the sufficient-quantity check left out
SellNeverExceeds(quantity, current_qty) == FALSE

\* The two checks of _handle_sell that raise ValueError
SellPositionMissing(db, ticker) == ticker \notin DOMAIN db.positions
SellExceedsHolding(quantity, current_qty) == quantity > current_qty

\* Mutant: a sell on a ticker with no position passes silently
SellWithoutPosition(db, ticker, quantity, sell_price, dt, now) ==
    IF SellPositionMissing(db, ticker)
    THEN Done(db)
    ELSE LET current_qty == db.positions[ticker].quantity
             avg_buy_price == db.positions[ticker].avg_buy_price
         IN  IF SellExceedsHolding(quantity, current_qty)
             THEN [Raise("InsufficientQuantity", db) EXCEPT !.held = current_qty,
                                                           !.requested = quantity]
             ELSE LET pnl == RealizedPnl(sell_price, avg_buy_price, quantity)
                      pnl_percent == RealizedPnlPercent(sell_price, avg_buy_price)
                      r == InsertRealizedPnl(db, ticker, quantity, avg_buy_price,
                                             sell_price, pnl, pnl_percent, dt, now)
                      u == ReducePosition(r.db, ticker, current_qty - quantity, now)
                  IN  IF u.raised # "" THEN u
                      ELSE [u EXCEPT !.pnl = pnl, !.pnl_percent = pnl_percent]

\* Mutant: the realized_pnl row is written before the sufficient-quantity check
SellWritesBeforeCheck(db, ticker, quantity, sell_price, dt, now) ==
    IF SellPositionMissing(db, ticker)
    THEN Raise("PositionNotFound", db)
    ELSE LET current_qty == db.positions[ticker].quantity
             avg_buy_price == db.positions[ticker].avg_buy_price
             pnl == RealizedPnl(sell_price, avg_buy_price, quantity)
             pnl_percent == RealizedPnlPercent(sell_price, avg_buy_price)
             r == InsertRealizedPnl(db, ticker, quantity, avg_buy_price,
                                    sell_price, pnl, pnl_percent, dt, now)
         IN  IF SellExceedsHolding(quantity, current_qty)
             THEN [Raise("InsufficientQuantity", r.db) EXCEPT !.held = current_qty,
                                                             !.requested = quantity]
             ELSE LET u == ReducePosition(r.db, ticker, current_qty - quantity, now)
                  IN  IF u.raised # "" THEN u
                      ELSE [u EXCEPT !.pnl = pnl, !.pnl_percent = pnl_percent]

_handle_sell(db, ticker, quantity, sell_price, dt, now) ==
    IF SellPositionMissing(db, ticker)
    THEN Raise("PositionNotFound", db)
    ELSE LET current_qty == db.positions[ticker].quantity
             avg_buy_price == db.positions[ticker].avg_buy_price
         IN  IF SellExceedsHolding(quantity, current_qty)
             THEN [Raise("InsufficientQuantity", db) EXCEPT !.held = current_qty,
                                                           !.requested = quantity]
             ELSE LET pnl == RealizedPnl(sell_price, avg_buy_price, quantity)
                      pnl_percent == RealizedPnlPercent(sell_price, avg_buy_price)
                      r == InsertRealizedPnl(db, ticker, quantity, avg_buy_price,
                                             sell_price, pnl, pnl_percent, dt, now)
                      u == ReducePosition(r.db, ticker, current_qty - quantity, now)
                  IN  IF u.raised # "" THEN u
                      ELSE [u EXCEPT !.pnl = pnl, !.pnl_percent = pnl_percent]

(***************************************************************************)
(* Transactions of a connection: conn.commit() makes the connection's view *)
(* the content of the file, conn.rollback() drops it.                      *)
(***************************************************************************)
\* Mutant: the rollback keeps what the failed call wrote
NoRollback(before, work) == work

Commit(before, work) == work
Rollback(before, work) == before

\* What add_transaction returns.
NoResult == [success |-> FALSE, error |-> "", transaction_id |-> 0,
             realized_pnl |-> RInt(0), realized_pnl_percent |-> RInt(0),
             held |-> 0, requested |-> 0]

Failure(s) == [NoResult EXCEPT !.error = s.raised, !.held = s.held,
                               !.requested = s.requested]

NormalizeTicker(ticker) == Strip(Upper(ticker))

\* The statements of add_transaction after the INSERT INTO transactions
HandleByType(db, ticker, trans_type, quantity, price, market, dt, now) ==
    IF trans_type = BUY
    THEN _handle_buy(db, ticker, quantity, price, market, now)
    ELSE IF trans_type = SELL
    THEN _handle_sell(db, ticker, quantity, price, dt, now)
    ELSE Raise("ValueError", db)

\* The result of a call whose statements all ran: the dictionary _handle_buy or
\* _handle_sell returned, with the transaction id added.
Success(s, transaction_id) ==
    [NoResult EXCEPT !.success = TRUE, !.transaction_id = transaction_id,
                     !.realized_pnl = s.pnl, !.realized_pnl_percent = s.pnl_percent]

\* add_transaction on one connection with no other connection active:
\* [db |-> the file's content after the call, result |-> what the call returns]
add_transaction(db, raw_ticker, raw_type, quantity, price, market, notes, now) ==
    LET ticker == NormalizeTicker(raw_ticker)
        trans_type == Upper(raw_type)
        dt == get_vn_datetime(now)
        s1 == InsertTransaction(db, ticker, trans_type, quantity, price, dt, market,
                                notes, now)
        s2 == HandleByType(s1.db, ticker, trans_type, quantity, price, market, dt, now)
    IN  IF s1.raised # ""
        THEN [db |-> Rollback(db, s1.db), result |-> Failure(s1)]
        ELSE IF s2.raised # ""
        THEN [db |-> Rollback(db, s2.db), result |-> Failure(s2)]
        ELSE [db |-> Commit(db, s2.db),
              result |-> Success(s2, s1.db.sqlite_sequence.transactions)]

\* Mutant: the DELETE FROM price_cache left out
ClearKeepsPrices(db) ==
    LET work == [db EXCEPT !.transactions = <<>>, !.positions = NoRows,
                           !.realized_pnl = <<>>]
    IN  [db |-> Commit(db, work), result |-> [NoResult EXCEPT !.success = TRUE]]

\* clear_all_data: the four DELETE statements and the commit
clear_all_data(db) ==
    LET work == [db EXCEPT !.transactions = <<>>, !.positions = NoRows,
                           !.price_cache = NoRows, !.realized_pnl = <<>>]
    IN  [db |-> Commit(db, work), result |-> [NoResult EXCEPT !.success = TRUE]]

(***************************************************************************)
(* Queries: each opens a connection of its own and runs one SELECT.        *)
(***************************************************************************)
\* The code points of the characters, for the BINARY collation of ORDER BY ticker
Alphabet == <<" ">> \o UpperLetters \o LowerLetters
CharCode(ch) ==
    LET i == CHOOSE k \in 1..Len(Alphabet) : Alphabet[k] = ch
    IN  IF i = 1 THEN 32 ELSE IF i <= 27 THEN 63 + i ELSE 69 + i

RECURSIVE StrLess(_, _)
StrLess(a, b) ==
    IF b = <<>> THEN FALSE
    ELSE IF a = <<>> THEN TRUE
    ELSE IF Head(a) # Head(b) THEN CharCode(Head(a)) < CharCode(Head(b))
    ELSE StrLess(Tail(a), Tail(b))

RECURSIVE OrderByTickerDesc(_)
\* Mutant: ORDER BY ticker DESC
OrderByTickerDesc(tickers) ==
    IF tickers = {} THEN <<>>
    ELSE LET first == CHOOSE t \in tickers : \A u \in tickers : ~StrLess(t, u)
         IN  <<first>> \o OrderByTickerDesc(tickers \ {first})

RECURSIVE OrderByTicker(_)
OrderByTicker(tickers) ==
    IF tickers = {} THEN <<>>
    ELSE LET first == CHOOSE t \in tickers : \A u \in tickers : ~StrLess(u, t)
         IN  <<first>> \o OrderByTicker(tickers \ {first})

\* SELECT ticker, quantity, avg_buy_price, market, last_updated FROM positions
\* ORDER BY ticker
get_all_positions(db) ==
    LET keys == OrderByTicker(DOMAIN db.positions)
    IN  [i \in 1..Len(keys) |->
            [ticker |-> keys[i], quantity |-> db.positions[keys[i]].quantity,
             avg_buy_price |-> db.positions[keys[i]].avg_buy_price,
             market |-> db.positions[keys[i]].market,
             last_updated |-> db.positions[keys[i]].last_updated]]

\* WHERE ticker = ? with ticker.upper(), when a ticker is given (None and '' are not)
WhereTicker(rows, ticker) ==
    IF ticker = <<>> THEN rows ELSE SelectSeq(rows, LAMBDA r : r.ticker = Upper(ticker))

\* ORDER BY date DESC, time DESC puts a before b
Newer(a, b) == a.date > b.date \/ (a.date = b.date /\ a.time > b.time)

RECURSIVE OrderByDateTimeDesc(_)
\* Every order ORDER BY date DESC, time DESC may give a set of rows: rows of the
\* same date and time come in any order.
OrderByDateTimeDesc(rows) ==
    IF rows = {} THEN {<<>>}
    ELSE UNION {{<<r>> \o rest : rest \in OrderByDateTimeDesc(rows \ {r})} :
                   r \in {x \in rows : \A y \in rows : ~Newer(y, x)}}

\* Mutant: the LIMIT clause left out
NoLimit(rows, limit) == rows

\* LIMIT ?: a negative limit is no limit
Limit(rows, limit) ==
    IF limit < 0 \/ limit >= Len(rows) THEN rows ELSE SubSeq(rows, 1, limit)

\* get_transaction_history: the lists the call may return
get_transaction_history(db, ticker, limit) ==
    LET matching == WhereTicker(db.transactions, ticker)
        shown == {[id |-> matching[i].id, ticker |-> matching[i].ticker,
                   type |-> matching[i].type, quantity |-> matching[i].quantity,
                   price |-> matching[i].price, date |-> matching[i].date,
                   time |-> matching[i].time, market |-> matching[i].market,
                   notes |-> matching[i].notes] : i \in 1..Len(matching)}
    IN  {Limit(ordered, limit) : ordered \in OrderByDateTimeDesc(shown)}

\* Mutant: the pnl of the first matching row instead of SUM(pnl)
FirstPnl(rows) == IF rows = <<>> THEN RInt(0) ELSE Head(rows).pnl

RECURSIVE SumPnl(_)
SumPnl(rows) == IF rows = <<>> THEN RInt(0) ELSE RAdd(Head(rows).pnl, SumPnl(Tail(rows)))

\* Mutant: a trade that broke even counted as won
WinningOrEven(row) == row.pnl.n >= 0

\* CASE WHEN pnl > 0 / CASE WHEN pnl < 0
Winning(row) == RPos(row.pnl)
Losing(row) == row.pnl.n < 0

\* get_realized_pnl_summary: SUM(pnl), COUNT(*), the winning and the losing trades
get_realized_pnl_summary(db, ticker) ==
    LET matching == WhereTicker(db.realized_pnl, ticker)
        total_trades == Len(matching)
        winning_trades == Len(SelectSeq(matching, Winning))
        losing_trades == Len(SelectSeq(matching, Losing))
    IN  IF total_trades = 0
        THEN [total_pnl |-> RInt(0), total_trades |-> 0, winning_trades |-> 0,
              losing_trades |-> 0, win_rate |-> RInt(0)]
        ELSE [total_pnl |-> SumPnl(matching), total_trades |-> total_trades,
              winning_trades |-> winning_trades, losing_trades |-> losing_trades,
              win_rate |-> RMul(RDiv(RInt(winning_trades), RInt(total_trades)), RInt(100))]

(***************************************************************************)
(* Prices: get_current_price with its cache of 5 minutes.  fetched is what *)
(* the price source adapter of the market answers when it is asked:        *)
(* a price, or NoPrice (None).                                             *)
(***************************************************************************)
NoPrice == [n |-> 0, d |-> 0]

FreshnessMinutes == 5

\* The cache row is written with datetime.now(), the host's local time, and read
\* against datetime.now(VN_TZ), both without timezone.
CacheIsFresh(row, now) == now - row.last_updated < FreshnessMinutes

\* Mutant: an entry that is no longer fresh is deleted when the adapter gives no price
GetPriceDropsStale(db, raw_ticker, market, now, offset, fetched) ==
    LET ticker == NormalizeTicker(raw_ticker)
    IN  IF ticker \in DOMAIN db.price_cache /\ CacheIsFresh(db.price_cache[ticker], now)
        THEN [db |-> db, price |-> db.price_cache[ticker].price, asked |-> FALSE]
        ELSE IF fetched = NoPrice
        THEN [db |-> [db EXCEPT !.price_cache = Drop(@, ticker)],
              price |-> NoPrice, asked |-> TRUE]
        ELSE [db |-> [db EXCEPT !.price_cache =
                         Put(@, ticker, [price |-> fetched, last_updated |-> now + offset])],
              price |-> fetched, asked |-> TRUE]

get_current_price(db, raw_ticker, market, now, offset, fetched) ==
    LET ticker == NormalizeTicker(raw_ticker)
    IN  IF ticker \in DOMAIN db.price_cache /\ CacheIsFresh(db.price_cache[ticker], now)
        THEN [db |-> db, price |-> db.price_cache[ticker].price, asked |-> FALSE]
        ELSE IF fetched = NoPrice
        THEN [db |-> db, price |-> NoPrice, asked |-> TRUE]
        ELSE [db |-> [db EXCEPT !.price_cache =
                         Put(@, ticker, [price |-> fetched, last_updated |-> now + offset])],
              price |-> fetched, asked |-> TRUE]

\* Mutant: every ticker passes, whether a price was had for it or not
ValidateAnyTicker(db, ticker, market, now, offset, fetched) ==
    LET r == get_current_price(db, ticker, market, now, offset, fetched)
    IN  [db |-> r.db, valid |-> TRUE]

\* validate_ticker: the ticker exists when a price can be had for it
validate_ticker(db, ticker, market, now, offset, fetched) ==
    LET r == get_current_price(db, ticker, market, now, offset, fetched)
    IN  [db |-> r.db, valid |-> r.price # NoPrice]

(***************************************************************************)
(* The tools buy_stock and sell_stock of portfolio_server.py.              *)
(***************************************************************************)
ToolError(db, e) == [db |-> db, result |-> [NoResult EXCEPT !.error = e]]

buy_stock(db, raw_ticker, quantity, price, raw_market, notes, now, offset, fetched) ==
    LET market == Upper(raw_market)
        ticker == Upper(raw_ticker)
        v == validate_ticker(db, ticker, market, now, offset, fetched)
    IN  IF quantity <= 0 THEN ToolError(db, "InvalidQuantity")
        ELSE IF ~RPos(price) THEN ToolError(db, "InvalidPrice")
        ELSE IF market \notin {VN, US} THEN ToolError(db, "InvalidMarket")
        ELSE IF ~v.valid THEN ToolError(v.db, "UnknownTicker")
        ELSE add_transaction(v.db, ticker, BUY, quantity, price, market, notes, now)

sell_stock(db, raw_ticker, quantity, price, raw_market, notes, now) ==
    LET market == Upper(raw_market)
        ticker == Upper(raw_ticker)
    IN  IF quantity <= 0 THEN ToolError(db, "InvalidQuantity")
        ELSE IF ~RPos(price) THEN ToolError(db, "InvalidPrice")
        ELSE IF market \notin {VN, US} THEN ToolError(db, "InvalidMarket")
        ELSE add_transaction(db, ticker, SELL, quantity, price, market, notes, now)

\* What the adapter of a market may answer: None, or the price of the ticker there
\* (vnstock for VN, yfinance otherwise)
AdapterAnswers(market) ==
    {NoPrice} \cup (IF market = VN THEN {RInt(87500)} ELSE {RInt(150)})

(***************************************************************************)
(* State machine: the ledger used by one caller at a time.                 *)
(***************************************************************************)
NoCall == [op |-> "", ticker |-> <<>>, type |-> <<>>, quantity |-> 0,
           price |-> RInt(0), market |-> <<>>, result |-> NoResult]

Store(db) ==
    /\ transactions' = db.transactions
    /\ positions' = db.positions
    /\ realized_pnl' = db.realized_pnl
    /\ price_cache' = db.price_cache
    /\ sqlite_sequence' = db.sqlite_sequence

\* The connections that add_transaction and the queries open on the file
Connections == {1, 2}

NoRead == [op |-> "", positions |-> <<>>, history |-> <<>>, summary |-> <<>>,
           during |-> FALSE, ticker |-> <<>>, market |-> <<>>, price |-> NoPrice,
           asked |-> FALSE, report |-> <<>>, limit |-> 0, error |-> ""]

NoConnections ==
    /\ pc = [c \in Connections |-> "idle"]
    /\ call = [c \in Connections |-> NoCall]
    /\ txn = [c \in Connections |-> EmptyDB]
    /\ lock = 0
    /\ hist = <<>>
    /\ lastRead = NoRead

Init ==
    /\ transactions = <<>>
    /\ positions = NoRows
    /\ realized_pnl = <<>>
    /\ price_cache = NoRows
    /\ sqlite_sequence = [transactions |-> 0, realized_pnl |-> 0]
    /\ clock = 0
    /\ host_offset = 0
    /\ last = NoCall
    /\ NoConnections

\* A caller invokes add_transaction(ticker, trans_type, quantity, price, market)
AddTransaction(raw_ticker, raw_type, quantity, price, market) ==
    LET r == add_transaction(DB, raw_ticker, raw_type, quantity, RInt(price), market,
                             <<>>, clock)
    IN  /\ r.db.sqlite_sequence.transactions <= MaxOps
        /\ Store(r.db)
        /\ last' = [op |-> "add_transaction", ticker |-> raw_ticker, type |-> raw_type,
                    quantity |-> quantity, price |-> RInt(price), market |-> market,
                    result |-> r.result]
        /\ UNCHANGED <<clock, host_offset, conns>>

\* A caller invokes clear_all_data()
ClearAllData ==
    LET r == clear_all_data(DB)
    IN  /\ Store(r.db)
        /\ last' = [NoCall EXCEPT !.op = "clear_all_data", !.result = r.result]
        /\ UNCHANGED <<clock, host_offset, conns>>

\* Inputs of the ledger specification: every order on one ticker in one market,
\* and a few orders in the other market and on a second ticker.
Order(t, ty, q, p, m) == [ticker |-> t, type |-> ty, quantity |-> q, price |-> p,
                          market |-> m]

LedgerOrders ==
    {Order(<<"a", " ">>, ty, q, p, VN) : ty \in {BUY, SELL}, q \in {50, 100},
                                          p \in {85000, 88000}}
    \cup {Order(<<"a", " ">>, BUY, 30, 90000, US), Order(<<"a", " ">>, SELL, 30, 90000, US),
          Order(<<"B">>, BUY, 100, 88000, US), Order(<<"B">>, SELL, 50, 85000, VN)}

Next ==
    \/ \E o \in LedgerOrders :
          AddTransaction(o.ticker, o.type, o.quantity, o.price, o.market)
    \/ ClearAllData

Spec == Init /\ [][Next]_vars

(***************************************************************************)
(* Vocabulary of the properties.                                           *)
(***************************************************************************)
RECURSIVE SumQuantity(_, _, _)
\* The sum of the quantities of the rows of type ty recorded for ticker t
SumQuantity(rows, t, ty) ==
    IF rows = <<>> THEN 0
    ELSE (IF Head(rows).ticker = t /\ Head(rows).type = ty THEN Head(rows).quantity ELSE 0)
         + SumQuantity(Tail(rows), t, ty)

NetQuantity(rows, t) == SumQuantity(rows, t, BUY) - SumQuantity(rows, t, SELL)

HeldQuantity(pos, t) == IF t \in DOMAIN pos THEN pos[t].quantity ELSE 0

KnownTickers(db) ==
    {db.transactions[i].ticker : i \in 1..Len(db.transactions)} \cup DOMAIN db.positions

TickerRows(rows, t) == SelectSeq(rows, LAMBDA r : r.ticker = t)

\* The rows of ticker t recorded since its net quantity was last zero
OpenRun(rows, t) ==
    LET tr == TickerRows(rows, t)
        k == CHOOSE i \in 0..Len(tr) :
                 /\ NetQuantity(SubSeq(tr, 1, i), t) = 0
                 /\ \A j \in (i + 1)..Len(tr) : NetQuantity(SubSeq(tr, 1, j), t) # 0
    IN  SubSeq(tr, k + 1, Len(tr))

RECURSIVE SumCost(_)
\* The sum of quantity x price over rows
SumCost(rows) ==
    IF rows = <<>> THEN RInt(0)
    ELSE RAdd(RMul(RInt(Head(rows).quantity), Head(rows).price), SumCost(Tail(rows)))

\* The call of the step just taken, as the ledger sees it
LastTicker == NormalizeTicker(last.ticker)
LastType == Upper(last.type)
IsSell(c) == c.op = "add_transaction" /\ Upper(c.type) = SELL
IsBuy(c) == c.op = "add_transaction" /\ Upper(c.type) = BUY

(***************************************************************************)
(* C1: in every reachable state, for every ticker, the quantity of its     *)
(* Position row (0 when there is none) equals the BUY quantities minus the *)
(* SELL quantities recorded for it in transactions.                        *)
(***************************************************************************)
C1_PositionIsNetOfLog ==
    \A t \in KnownTickers(DB) : HeldQuantity(positions, t) = NetQuantity(transactions, t)

\* after a reset, a buy and a partial sell, a sell has just failed
C1_Witness ==
    /\ sqlite_sequence.transactions > Len(transactions)
    /\ IsSell(last) /\ ~last.result.success
    /\ \E t \in DOMAIN positions :
          /\ SumQuantity(transactions, t, SELL) > 0
          /\ positions[t].quantity > 0

(***************************************************************************)
(* C2: after successful BUYs only, on a ticker with no Position at the     *)
(* start, the Position's quantity is the sum of the bought quantities and  *)
(* avg_buy_price x quantity is the sum of quantity x price over the buys.  *)
(***************************************************************************)
C2_WeightedMeanOfBuys ==
    \A t \in KnownTickers(DB) :
        LET run == OpenRun(transactions, t)
        IN  (run # <<>> /\ \A i \in 1..Len(run) : run[i].type = BUY) =>
                /\ t \in DOMAIN positions
                /\ positions[t].quantity = SumQuantity(run, t, BUY)
                /\ RMul(positions[t].avg_buy_price, RInt(positions[t].quantity))
                       = SumCost(run)

\* BUY 100 @ 85000 then BUY 50 @ 88000 on a fresh ticker: 150 @ 86000
C2_Witness ==
    \E t \in DOMAIN positions :
        LET run == OpenRun(transactions, t)
        IN  /\ Len(run) = 2
            /\ run[1].type = BUY /\ run[1].quantity = 100 /\ run[1].price = RInt(85000)
            /\ run[2].type = BUY /\ run[2].quantity = 50 /\ run[2].price = RInt(88000)
            /\ positions[t].quantity = 150
            /\ positions[t].avg_buy_price = RInt(86000)

(***************************************************************************)
(* C3: a SELL of more than the quantity held fails, reports the held and   *)
(* the requested quantity, and leaves positions, transactions and          *)
(* realized_pnl as they were.                                              *)
(***************************************************************************)
C3_OversellStep ==
    /\ IsSell(last')
    /\ NormalizeTicker(last'.ticker) \in DOMAIN positions
    /\ last'.quantity > positions[NormalizeTicker(last'.ticker)].quantity
    =>  /\ ~last'.result.success
        /\ last'.result.error = "InsufficientQuantity"
        /\ last'.result.held = positions[NormalizeTicker(last'.ticker)].quantity
        /\ last'.result.requested = last'.quantity
        /\ UNCHANGED <<transactions, positions, realized_pnl>>

C4_SellAbsentStep ==
    /\ IsSell(last')
    /\ NormalizeTicker(last'.ticker) \notin DOMAIN positions
    =>  /\ ~last'.result.success
        /\ last'.result.error = "PositionNotFound"
        /\ UNCHANGED <<transactions, positions, realized_pnl>>
        /\ NormalizeTicker(last'.ticker) \notin DOMAIN positions'

C4_SellAbsentRejected == [][C4_SellAbsentStep]_vars

\* a sell on a ticker that was sold out before
C4_Witness ==
    /\ IsSell(last) /\ ~last.result.success
    /\ LastTicker \notin DOMAIN positions
    /\ SumQuantity(transactions, LastTicker, SELL) > 0

(***************************************************************************)
(* C5: a successful SELL of q at price p against average cost a reports    *)
(* realized pnl = (p - a) x q and appends exactly one realized_pnl row and *)
(* exactly one transactions row, of type SELL.                             *)
(***************************************************************************)
AppendsOne(after, before) ==
    Len(after) = Len(before) + 1 /\ SubSeq(after, 1, Len(before)) = before

C5_SellStep ==
    IsSell(last') /\ last'.result.success =>
        LET t == NormalizeTicker(last'.ticker)
            q == last'.quantity
            p == last'.price
        IN  /\ t \in DOMAIN positions
            /\ LET a == positions[t].avg_buy_price
               IN  /\ last'.result.realized_pnl
                          = Rat((p.n * a.d - a.n * p.d) * q, p.d * a.d)
                   /\ AppendsOne(realized_pnl', realized_pnl)
                   /\ realized_pnl'[Len(realized_pnl')].pnl = last'.result.realized_pnl
                   /\ realized_pnl'[Len(realized_pnl')].ticker = t
            /\ AppendsOne(transactions', transactions)
            /\ transactions'[Len(transactions')].type = SELL
            /\ transactions'[Len(transactions')].id = last'.result.transaction_id

C5_SellRealizesPnl == [][C5_SellStep]_vars

\* a sell of more than one share at a price other than a fractional average cost
C5_Witness ==
    /\ IsSell(last) /\ last.result.success
    /\ last.quantity > 1
    /\ last.result.realized_pnl # RInt(0)
    /\ realized_pnl # <<>>
    /\ realized_pnl[Len(realized_pnl)].buy_price.d > 1
    /\ realized_pnl[Len(realized_pnl)].pnl = last.result.realized_pnl

(***************************************************************************)
(* C6: a successful SELL of exactly the held quantity deletes the Position *)
(* row, and a BUY of q at price p on a ticker with no Position row creates *)
(* one with quantity q and avg_buy_price p, whatever average it had before.*)
(***************************************************************************)
C6_Step ==
    LET t == NormalizeTicker(last'.ticker)
    IN  /\ (/\ IsSell(last') /\ last'.result.success
            /\ t \in DOMAIN positions
            /\ last'.quantity = positions[t].quantity)
           => t \notin DOMAIN positions'
        /\ (IsBuy(last') /\ last'.result.success /\ t \notin DOMAIN positions)
           => /\ t \in DOMAIN positions'
              /\ positions'[t].quantity = last'.quantity
              /\ positions'[t].avg_buy_price = last'.price

C6_FullSellThenFreshBasis == [][C6_Step]_vars

\* a buy right after a full sale, at a price other than the average sold
C6_Witness ==
    /\ IsBuy(last) /\ last.result.success
    /\ LastTicker \in DOMAIN positions
    /\ Len(OpenRun(transactions, LastTicker)) = 1
    /\ positions[LastTicker].avg_buy_price = last.price
    /\ \E i \in 1..Len(realized_pnl) :
          /\ realized_pnl[i].ticker = LastTicker
          /\ realized_pnl[i].buy_price # last.price

(***************************************************************************)
(* C7: a successful SELL that leaves a positive quantity changes only the  *)
(* quantity and last_updated of the Position: avg_buy_price and market     *)
(* stay as they were.                                                      *)
(***************************************************************************)
C7_PartialSellStep ==
    LET t == NormalizeTicker(last'.ticker)
    IN  (/\ IsSell(last') /\ last'.result.success
         /\ t \in DOMAIN positions
         /\ last'.quantity < positions[t].quantity)
        =>  /\ t \in DOMAIN positions'
            /\ positions'[t].quantity = positions[t].quantity - last'.quantity
            /\ positions'[t].avg_buy_price = positions[t].avg_buy_price
            /\ positions'[t].market = positions[t].market

C7_PartialSellKeepsAverage == [][C7_PartialSellStep]_vars

\* a partial sell, submitted under the other market, at a price other than the average
C7_Witness ==
    /\ IsSell(last) /\ last.result.success
    /\ LastTicker \in DOMAIN positions
    /\ last.market # positions[LastTicker].market
    /\ last.price # positions[LastTicker].avg_buy_price

(***************************************************************************)
(* State machine: the tools and the ledger called with any arguments,      *)
(* valid or not, on a host in the reference timezone or on a UTC host.     *)
(***************************************************************************)
InitTool ==
    /\ transactions = <<>>
    /\ positions = NoRows
    /\ realized_pnl = <<>>
    /\ price_cache = NoRows
    /\ sqlite_sequence = [transactions |-> 0, realized_pnl |-> 0]
    /\ clock = 0
    /\ host_offset \in {0, -420}      \* Asia/Ho_Chi_Minh is UTC+7
    /\ last = NoCall
    /\ NoConnections

\* The tool buy_stock(ticker, quantity, price, market) is called
BuyStock(raw_ticker, quantity, price, raw_market) ==
    \E fetched \in AdapterAnswers(Upper(raw_market)) :
        LET r == buy_stock(DB, raw_ticker, quantity, RInt(price), raw_market, <<>>,
                           clock, host_offset, fetched)
        IN  /\ r.db.sqlite_sequence.transactions <= MaxOps
            /\ Store(r.db)
            /\ last' = [op |-> "buy_stock", ticker |-> raw_ticker, type |-> BUY,
                        quantity |-> quantity, price |-> RInt(price),
                        market |-> raw_market, result |-> r.result]
            /\ UNCHANGED <<clock, host_offset, conns>>

\* The tool sell_stock(ticker, quantity, price, market) is called
SellStock(raw_ticker, quantity, price, raw_market) ==
    LET r == sell_stock(DB, raw_ticker, quantity, RInt(price), raw_market, <<>>, clock)
    IN  /\ r.db.sqlite_sequence.transactions <= MaxOps
        /\ Store(r.db)
        /\ last' = [op |-> "sell_stock", ticker |-> raw_ticker, type |-> SELL,
                    quantity |-> quantity, price |-> RInt(price),
                    market |-> raw_market, result |-> r.result]
        /\ UNCHANGED <<clock, host_offset, conns>>

\* Arguments of the tool specification: one valid order, the same order with the
\* market tag in lower case, and the order with each argument made invalid in turn.
ToolArguments ==
    {Order(<<"a">>, BUY, 50, 85000, VN), Order(<<"a">>, BUY, 50, 85000, <<"u", "s">>),
     Order(<<"a">>, BUY, 0, 85000, VN), Order(<<"a">>, BUY, -50, 85000, VN),
     Order(<<"a">>, BUY, 50, 0, VN), Order(<<"a">>, BUY, 50, 85000, <<"H", "K">>)}

NextTool ==
    \/ \E o \in ToolArguments :
          \/ BuyStock(o.ticker, o.quantity, o.price, o.market)
          \/ SellStock(o.ticker, o.quantity, o.price, o.market)
          \/ \E ty \in {BUY, SELL} :
                AddTransaction(o.ticker, ty, o.quantity, o.price, o.market)
    \/ ClearAllData

SpecTool == InitTool /\ [][NextTool]_vars

(***************************************************************************)
(* C10: a buy or sell with quantity <= 0, price <= 0 or a market tag other *)
(* than VN/US returns an error and leaves transactions, positions,         *)
(* realized_pnl and price_cache unchanged, through buy_stock / sell_stock  *)
(* (which upper-case the tag first) and through add_transaction called     *)
(* directly (which takes the tag as given).                                *)
(***************************************************************************)
InvalidArguments(c) ==
    \/ c.quantity <= 0
    \/ ~RPos(c.price)
    \/ (c.op \in {"buy_stock", "sell_stock"} /\ Upper(c.market) \notin {VN, US})
    \/ (c.op = "add_transaction" /\ c.market \notin {VN, US})

C10_InvalidStep ==
    (last'.op \in {"buy_stock", "sell_stock", "add_transaction"} /\ InvalidArguments(last'))
    =>  /\ ~last'.result.success
        /\ last'.result.error # ""
        /\ UNCHANGED <<transactions, positions, realized_pnl, price_cache>>

C10_InvalidArgumentsRejected == [][C10_InvalidStep]_vars

\* buy_stock has just been refused for its market tag, with rows in every table
C10_Witness ==
    /\ last.op = "buy_stock"
    /\ last.quantity > 0 /\ RPos(last.price)
    /\ Upper(last.market) \notin {VN, US}
    /\ ~last.result.success
    /\ transactions # <<>> /\ realized_pnl # <<>>
    /\ DOMAIN positions # {} /\ DOMAIN price_cache # {}


(***************************************************************************)
(* State machine: add_transaction on two connections at once, statement by *)
(* statement, and the queries on connections of their own.  The first      *)
(* statement of add_transaction is a write: sqlite3 begins the transaction *)
(* there and the connection takes the write lock of the file, which it     *)
(* holds until conn.commit() or conn.rollback().  What a transaction wrote *)
(* is in the file for the other connections only once it is committed.     *)
(***************************************************************************)
\* Mutant: no write lock, every connection writes when it likes
AlwaysCanWrite(c) == TRUE

\* The write lock is free, or already this connection's
CanWrite(c) == lock \in {0, c}

\* Mutant: the connection in autocommit mode (isolation_level=None)
Autocommit == TRUE

\* sqlite3.connect(DB_PATH) leaves the connection in the default mode: a statement
\* is not committed on its own.
StatementCommits == FALSE

\* What a query on a connection of its own reads: the committed content
ReaderView == DB

InFlight == {c \in Connections : pc[c] # "idle"}

\* Connection c enters add_transaction: ticker and type normalised, the date and
\* the time read.
Begin(c, o) ==
    /\ pc[c] = "idle"
    /\ Len(hist) + Cardinality(InFlight) < MaxOps
    /\ call' = [call EXCEPT ![c] =
                   [NoCall EXCEPT !.op = "add_transaction",
                                  !.ticker = NormalizeTicker(o.ticker),
                                  !.type = Upper(o.type), !.quantity = o.quantity,
                                  !.price = RInt(o.price), !.market = o.market]]
    /\ pc' = [pc EXCEPT ![c] = "insert"]
    /\ UNCHANGED <<tables, clock, host_offset, last, txn, lock, hist, lastRead>>

\* cursor.execute(INSERT INTO transactions ...): begins the transaction
ExecInsert(c) ==
    /\ pc[c] = "insert"
    /\ CanWrite(c)
    /\ LET s == InsertTransaction(DB, call[c].ticker, call[c].type, call[c].quantity,
                                  call[c].price, get_vn_datetime(clock), call[c].market,
                                  <<>>, clock)
       IN  /\ txn' = [txn EXCEPT ![c] = s.db]
           /\ pc' = [pc EXCEPT ![c] = IF s.raised = "" THEN "handle" ELSE "rollback"]
           /\ call' = [call EXCEPT ![c].result = Failure(s)]
           /\ IF StatementCommits THEN Store(s.db) ELSE UNCHANGED tables
    /\ lock' = c
    /\ UNCHANGED <<clock, host_offset, last, hist, lastRead>>

\* The same statement when another connection keeps the write lock for the 5 seconds
\* sqlite3 waits: OperationalError, database is locked
BusyTimeout(c) ==
    /\ pc[c] = "insert"
    /\ ~CanWrite(c)
    /\ pc' = [pc EXCEPT ![c] = "rollback"]
    /\ call' = [call EXCEPT ![c].result = Failure(Raise("OperationalError", DB))]
    /\ UNCHANGED <<tables, clock, host_offset, last, txn, lock, hist, lastRead>>

\* _handle_buy or _handle_sell on the connection's cursor
ExecHandle(c) ==
    /\ pc[c] = "handle"
    /\ LET s == HandleByType(txn[c], call[c].ticker, call[c].type, call[c].quantity,
                             call[c].price, call[c].market, get_vn_datetime(clock), clock)
       IN  /\ txn' = [txn EXCEPT ![c] = s.db]
           /\ pc' = [pc EXCEPT ![c] = IF s.raised = "" THEN "commit" ELSE "rollback"]
           /\ call' = [call EXCEPT ![c].result =
                          IF s.raised = ""
                          THEN Success(s, txn[c].sqlite_sequence.transactions)
                          ELSE Failure(s)]
           /\ IF StatementCommits THEN Store(s.db) ELSE UNCHANGED tables
    /\ UNCHANGED <<clock, host_offset, last, lock, hist, lastRead>>

\* conn.commit(), and the call returns success
ExecCommit(c) ==
    /\ pc[c] = "commit"
    /\ Store(Commit(DB, txn[c]))
    /\ hist' = Append(hist, [conn |-> c, call |-> [call[c] EXCEPT !.result = NoResult],
                             waiting |-> {d \in Connections : pc[d] = "insert"}])
    /\ lock' = IF lock = c THEN 0 ELSE lock
    /\ pc' = [pc EXCEPT ![c] = "idle"]
    /\ txn' = [txn EXCEPT ![c] = EmptyDB]
    /\ call' = [call EXCEPT ![c] = NoCall]
    /\ last' = call[c]
    /\ UNCHANGED <<clock, host_offset, lastRead>>

\* except Exception: conn.rollback(), and the call returns failure
ExecRollback(c) ==
    /\ pc[c] = "rollback"
    /\ IF lock = c THEN Store(Rollback(DB, txn[c])) ELSE UNCHANGED tables
    /\ lock' = IF lock = c THEN 0 ELSE lock
    /\ pc' = [pc EXCEPT ![c] = "idle"]
    /\ txn' = [txn EXCEPT ![c] = EmptyDB]
    /\ call' = [call EXCEPT ![c] = NoCall]
    /\ last' = call[c]
    /\ UNCHANGED <<clock, host_offset, hist, lastRead>>

\* The queries, each on a connection of its own.  during: a call of add_transaction
\* had written and not yet committed when the query ran.
GetAllPositions ==
    /\ lastRead' = [NoRead EXCEPT !.op = "get_all_positions",
                                  !.positions = get_all_positions(ReaderView),
                                  !.during = lock # 0]
    /\ UNCHANGED <<tables, clock, host_offset, last, pc, call, txn, lock, hist>>

GetTransactionHistory(ticker, limit) ==
    /\ \E rows \in get_transaction_history(ReaderView, ticker, limit) :
          lastRead' = [NoRead EXCEPT !.op = "get_transaction_history",
                                     !.ticker = ticker, !.limit = limit,
                                     !.history = rows, !.during = lock # 0]
    /\ UNCHANGED <<tables, clock, host_offset, last, pc, call, txn, lock, hist>>

GetRealizedPnlSummary(ticker) ==
    /\ lastRead' = [NoRead EXCEPT !.op = "get_realized_pnl_summary", !.ticker = ticker,
                                  !.summary = get_realized_pnl_summary(ReaderView, ticker),
                                  !.during = lock # 0]
    /\ UNCHANGED <<tables, clock, host_offset, last, pc, call, txn, lock, hist>>

\* Inputs: buys and sells of one ticker at two prices
ConcurrentOrders ==
    {Order(<<"a">>, BUY, 100, 85000, VN), Order(<<"a">>, BUY, 50, 88000, VN),
     Order(<<"a">>, SELL, 100, 88000, VN), Order(<<"a">>, SELL, 50, 85000, VN)}

NextConc ==
    \E c \in Connections :
        \/ \E o \in ConcurrentOrders : Begin(c, o)
        \/ ExecInsert(c)
        \/ BusyTimeout(c)
        \/ ExecHandle(c)
        \/ ExecCommit(c)
        \/ ExecRollback(c)

SpecConc == Init /\ [][NextConc]_vars

\* add_transaction on one connection, statement by statement, and the queries
\* run between its statements
NextRead ==
    \/ \E o \in ConcurrentOrders : Begin(1, o)
    \/ ExecInsert(1)
    \/ ExecHandle(1)
    \/ ExecCommit(1)
    \/ ExecRollback(1)
    \/ GetAllPositions
    \/ GetTransactionHistory(<<>>, 1)
    \/ GetRealizedPnlSummary(<<>>)

SpecRead == Init /\ [][NextRead]_vars

\* The SELL rows of transactions and the rows of realized_pnl recorded for ticker t
SellRows(db, t) == SelectSeq(db.transactions, LAMBDA r : r.ticker = t /\ r.type = SELL)
RealizedRows(db, t) == TickerRows(db.realized_pnl, t)

\* Every transactions row of db has its positions change and, for a sell, its
\* realized_pnl row, and the reverse
EffectsTogether(db) ==
    \A t \in KnownTickers(db) \cup {db.realized_pnl[i].ticker : i \in 1..Len(db.realized_pnl)} :
        /\ HeldQuantity(db.positions, t) = NetQuantity(db.transactions, t)
        /\ Len(RealizedRows(db, t)) = Len(SellRows(db, t))
        /\ \A i \in 1..Len(SellRows(db, t)) :
               RealizedRows(db, t)[i].quantity = SellRows(db, t)[i].quantity

\* A call of add_transaction has written its transactions row and nothing else yet
MidCall(c) == pc[c] = "handle" /\ Len(txn[c].transactions) = Len(transactions) + 1

(***************************************************************************)
(* C8: at every point of a call of add_transaction on another connection,  *)
(* what the queries read has, for every ticker, the positions quantity     *)
(* that its transactions rows add up to and one realized_pnl row for each  *)
(* SELL row, and a list get_transaction_history returned holds committed   *)
(* rows only.                                                              *)
(***************************************************************************)
C8_EffectsVisibleTogether ==
    /\ EffectsTogether(ReaderView)
    /\ lastRead.op = "get_transaction_history" =>
           \A i \in 1..Len(lastRead.history) :
               \E j \in 1..Len(transactions) : transactions[j].id = lastRead.history[i].id

\* A sell has written its transactions row, not yet its realized_pnl row or its
\* positions change, and a query has just read the history without that row.
C8_Witness ==
    \E c \in Connections :
        /\ MidCall(c)
        /\ call[c].type = SELL
        /\ lastRead.op = "get_transaction_history"
        /\ lastRead.during
        /\ lastRead.history \in get_transaction_history(DB, <<>>, 1)
        /\ Len(lastRead.history) = 1

RECURSIVE Serial(_, _)
\* The calls of a list run one after another from db: the content they leave, and
\* whether each of them reports success
Serial(db, calls) ==
    IF calls = <<>> THEN [db |-> db, ok |-> TRUE]
    ELSE LET o == Head(calls).call
             r == add_transaction(db, o.ticker, o.type, o.quantity, o.price, o.market,
                                  <<>>, clock)
             s == Serial(r.db, Tail(calls))
         IN  [db |-> s.db, ok |-> r.result.success /\ s.ok]

(***************************************************************************)
(* C9: with calls of add_transaction on one ticker running at once on two  *)
(* connections, the committed transactions, positions and realized_pnl are *)
(* those that the calls which reported success leave when run one after    *)
(* another in the order they committed, each of them succeeding there too. *)
(***************************************************************************)
C9_SerialOrder ==
    LET r == Serial(EmptyDB, hist)
    IN  /\ r.ok
        /\ r.db.transactions = transactions
        /\ r.db.positions = positions
        /\ r.db.realized_pnl = realized_pnl

\* Two buys of the same ticker have both reported success, the second having
\* entered add_transaction before the first committed, and the position holds the
\* quantity and the average cost of both.
C9_Witness ==
    /\ InFlight = {}
    /\ \E i \in 1..(Len(hist) - 1) :
          /\ hist[i + 1].conn \in hist[i].waiting
          /\ hist[i + 1].call.ticker = hist[i].call.ticker
          /\ hist[i].call.type = BUY
          /\ hist[i + 1].call.type = BUY
          /\ hist[i].call.price # hist[i + 1].call.price
          /\ hist[i].call.ticker \in DOMAIN positions
          /\ positions[hist[i].call.ticker].quantity = 150
          /\ positions[hist[i].call.ticker].avg_buy_price = RInt(86000)


(***************************************************************************)
(* State machine: add_transaction and clear_all_data on one connection,    *)
(* where any statement, conn.commit() included, may raise a storage error  *)
(* (sqlite3.OperationalError: disk I/O error, database or disk is full).   *)
(***************************************************************************)
\* The content after the first k DELETE statements of clear_all_data
ClearStatements(db, k) ==
    [db EXCEPT !.transactions = IF k >= 1 THEN <<>> ELSE @,
               !.positions = IF k >= 2 THEN NoRows ELSE @,
               !.price_cache = IF k >= 3 THEN NoRows ELSE @,
               !.realized_pnl = IF k >= 4 THEN <<>> ELSE @]

\* What _handle_buy or _handle_sell may have written when one of its statements
\* raises a storage error: nothing, or for a sell that passed its checks the
\* realized_pnl row without the positions change
HandlePrefixes(db, o, dt, now) ==
    IF o.type = SELL /\ ~SellPositionMissing(db, o.ticker)
       /\ ~SellExceedsHolding(o.quantity, db.positions[o.ticker].quantity)
    THEN LET avg_buy_price == db.positions[o.ticker].avg_buy_price
         IN  {db, InsertRealizedPnl(db, o.ticker, o.quantity, avg_buy_price, o.price,
                                    RealizedPnl(o.price, avg_buy_price, o.quantity),
                                    RealizedPnlPercent(o.price, avg_buy_price),
                                    dt, now).db}
    ELSE {db}

\* Connection c enters clear_all_data
BeginClear(c) ==
    /\ pc[c] = "idle"
    /\ Len(hist) + Cardinality(InFlight) < MaxOps
    /\ call' = [call EXCEPT ![c] = [NoCall EXCEPT !.op = "clear_all_data"]]
    /\ pc' = [pc EXCEPT ![c] = "clear"]
    /\ UNCHANGED <<tables, clock, host_offset, last, txn, lock, hist, lastRead>>

\* The four DELETE statements of clear_all_data
ExecClear(c) ==
    /\ pc[c] = "clear"
    /\ CanWrite(c)
    /\ txn' = [txn EXCEPT ![c] = ClearStatements(DB, 4)]
    /\ IF StatementCommits THEN Store(ClearStatements(DB, 4)) ELSE UNCHANGED tables
    /\ lock' = c
    /\ call' = [call EXCEPT ![c].result = [NoResult EXCEPT !.success = TRUE]]
    /\ pc' = [pc EXCEPT ![c] = "commit"]
    /\ UNCHANGED <<clock, host_offset, last, hist, lastRead>>

\* The statement connection c runs next raises a storage error, the statements
\* before it having run: control goes to the except clause.
StorageError(c) ==
    /\ pc[c] \in {"insert", "handle", "clear", "commit"}
    /\ CanWrite(c)
    /\ \E partial \in (IF pc[c] = "insert" THEN {DB}
                       ELSE IF pc[c] = "handle"
                       THEN HandlePrefixes(txn[c], call[c], get_vn_datetime(clock), clock)
                       ELSE IF pc[c] = "clear"
                       THEN {ClearStatements(DB, k) : k \in 0..3}
                       ELSE {txn[c]}) :
          /\ txn' = [txn EXCEPT ![c] = partial]
          /\ IF StatementCommits THEN Store(partial) ELSE UNCHANGED tables
    /\ lock' = c
    /\ call' = [call EXCEPT ![c].result = Failure(Raise("OperationalError", DB))]
    /\ pc' = [pc EXCEPT ![c] = "rollback"]
    /\ UNCHANGED <<clock, host_offset, last, hist, lastRead>>

NextFault ==
    \/ \E o \in ConcurrentOrders : Begin(1, o)
    \/ BeginClear(1)
    \/ ExecInsert(1)
    \/ ExecHandle(1)
    \/ ExecClear(1)
    \/ StorageError(1)
    \/ ExecCommit(1)
    \/ ExecRollback(1)

SpecFault == Init /\ [][NextFault]_vars

\* Connection c returns from its call in this step, and what it returns
Returns(c) == pc[c] # "idle" /\ pc'[c] = "idle"

(***************************************************************************)
(* C11: no step of add_transaction or clear_all_data changes a table of    *)
(* the file except the return of a call that reports success; a call in    *)
(* which a statement raised returns success = False, so the tables are     *)
(* then what they were before the call.                                    *)
(***************************************************************************)
C11_Step ==
    \A c \in Connections :
        /\ (pc[c] # "idle" /\ ~(Returns(c) /\ last'.result.success)) => UNCHANGED tables
        /\ (Returns(c) /\ pc[c] = "rollback") => ~last'.result.success

C11_AllOrNothing == [][C11_Step]_vars

\* A call interrupted after its transactions row and its realized_pnl row, or
\* after some of the DELETE statements, has returned failure.
C11_Witness ==
    /\ pc[1] = "idle"
    /\ last.result.error = "OperationalError"
    /\ ~last.result.success
    /\ transactions # <<>>
    /\ last.op = "clear_all_data" \/ (last.type = SELL /\ last.ticker \in DOMAIN positions
                                       /\ positions[last.ticker].quantity >= last.quantity)

\* The tickers and markets a price is asked for
PriceTickers == {<<"a">>, <<"B">>}
Markets == {VN, US}

(***************************************************************************)
(* C12: after a clear_all_data that reported success, transactions,        *)
(* positions, realized_pnl and price_cache are empty: get_all_positions    *)
(* and get_transaction_history return no rows, get_realized_pnl_summary    *)
(* returns zeros and get_current_price asks the adapter for every ticker.  *)
(***************************************************************************)
C12_ClearEmptiesAll ==
    (last.op = "clear_all_data" /\ last.result.success) =>
        /\ transactions = <<>>
        /\ positions = NoRows
        /\ realized_pnl = <<>>
        /\ price_cache = NoRows
        /\ get_all_positions(DB) = <<>>
        /\ get_transaction_history(DB, <<>>, 20) = {<<>>}
        /\ LET summary == get_realized_pnl_summary(DB, <<>>)
           IN  /\ summary.total_pnl = RInt(0)
               /\ summary.total_trades = 0
               /\ summary.winning_trades = 0
               /\ summary.losing_trades = 0
               /\ summary.win_rate = RInt(0)
        /\ \A t \in PriceTickers, m \in Markets : \A fetched \in AdapterAnswers(m) :
               get_current_price(DB, t, m, clock, host_offset, fetched).asked

\* clear_all_data has just returned success on a ledger where a buy through
\* buy_stock (which caches the price) and a sell had been recorded.
C12_Witness ==
    /\ last.op = "clear_all_data"
    /\ last.result.success
    /\ sqlite_sequence.transactions >= 2
    /\ sqlite_sequence.realized_pnl >= 1


(***************************************************************************)
(* State machine: get_current_price called as time passes, on a host whose *)
(* local time is the reference time, 7 hours behind it (UTC) or 2 hours    *)
(* ahead of it (UTC+9).                                                    *)
(***************************************************************************)
InitPrice ==
    /\ transactions = <<>>
    /\ positions = NoRows
    /\ realized_pnl = <<>>
    /\ price_cache = NoRows
    /\ sqlite_sequence = [transactions |-> 0, realized_pnl |-> 0]
    /\ clock = 0
    /\ host_offset \in {0, -420, 120}
    /\ last = NoCall
    /\ NoConnections

\* A caller invokes get_current_price(ticker, market); fetched is what the adapter
\* of the market answers if it is asked.
GetCurrentPrice(raw_ticker, market, fetched) ==
    LET r == get_current_price(DB, raw_ticker, market, clock, host_offset, fetched)
    IN  /\ Store(r.db)
        /\ lastRead' = [NoRead EXCEPT !.op = "get_current_price", !.ticker = raw_ticker,
                                      !.market = market, !.price = r.price,
                                      !.asked = r.asked]
        /\ UNCHANGED <<clock, host_offset, last, pc, call, txn, lock, hist>>

\* A minute passes
Tick ==
    /\ clock < MaxClock
    /\ clock' = clock + 1
    /\ UNCHANGED <<tables, host_offset, last, conns>>

NextPrice ==
    \/ \E t \in PriceTickers, m \in Markets : \E fetched \in AdapterAnswers(m) :
          GetCurrentPrice(t, m, fetched)
    \/ Tick

SpecPrice == InitPrice /\ [][NextPrice]_vars

\* This step is a call of get_current_price, and the cache key it looks up
PriceStep == clock' = clock /\ lastRead'.op = "get_current_price"
PriceKey == NormalizeTicker(lastRead'.ticker)

\* The minutes since the cache entry of key was written (the entry records the
\* host's local time of the write)
Elapsed(key) == clock - (price_cache[key].last_updated - host_offset)

(***************************************************************************)
(* C13: a call of get_current_price for a ticker whose cache entry was     *)
(* written less than 5 minutes before returns the cached price and does    *)
(* not ask the adapter.                                                    *)
(***************************************************************************)
C13_Step ==
    (PriceStep /\ PriceKey \in DOMAIN price_cache /\ Elapsed(PriceKey) < FreshnessMinutes) =>
        /\ lastRead'.price = price_cache[PriceKey].price
        /\ ~lastRead'.asked

C13_FreshEntryAnswers == [][C13_Step]_vars

(***************************************************************************)
(* C14: get_current_price answers from the cache only when the entry was   *)
(* written less than 5 minutes before, whatever the host's offset; an      *)
(* older entry is a miss, and the call returns None when the adapter then  *)
(* has no price.                                                           *)
(***************************************************************************)
C14_Step ==
    PriceStep =>
        /\ ~lastRead'.asked =>
               PriceKey \in DOMAIN price_cache /\ Elapsed(PriceKey) < FreshnessMinutes
        /\ (PriceKey \in DOMAIN price_cache /\ Elapsed(PriceKey) >= FreshnessMinutes
            /\ price_cache' = price_cache) =>
               lastRead'.price = NoPrice

C14_OnlyFreshEntryAnswers == [][C14_Step]_vars

(***************************************************************************)
(* C15: when get_current_price asks the adapter and the adapter answers a  *)
(* price, the call returns that price and the cache entry of the ticker    *)
(* then holds that price and is fresh.                                     *)
(***************************************************************************)
C15_Step ==
    (PriceStep /\ lastRead'.asked /\ lastRead'.price # NoPrice) =>
        /\ lastRead'.price \in AdapterAnswers(lastRead'.market)
        /\ PriceKey \in DOMAIN price_cache'
        /\ price_cache'[PriceKey].price = lastRead'.price
        /\ CacheIsFresh(price_cache'[PriceKey], clock)

C15_WriteThrough == [][C15_Step]_vars


(***************************************************************************)
(* view_portfolio of portfolio_server.py: the table of the positions with  *)
(* their current prices, and the totals.                                   *)
(***************************************************************************)
\* A number printed with no decimals (n/d rounded half to even, as format does)
RoundHalfEven(n, d) ==
    LET q == n \div d
        r == n - q * d
    IN  IF 2 * r < d THEN q
        ELSE IF 2 * r > d THEN q + 1
        ELSE IF q % 2 = 0 THEN q ELSE q + 1

\* format_currency: "{amount:,.0f} VNĐ" for VN, "${amount:,.2f}" otherwise
\* (value is then in hundredths)
format_currency(amount, market) ==
    IF market = VN
    THEN [unit |-> "VND", value |-> RoundHalfEven(amount.n, amount.d)]
    ELSE [unit |-> "$", value |-> RoundHalfEven(100 * amount.n, amount.d)]

\* if current_price: None and 0 are not a price
Truthy(price) == price # NoPrice /\ price.n # 0

\* Mutant: the cost of a position is added to the total before its price is looked at
InvestedOfAll(resolved, invested) == invested

\* What a position adds to total_invested
InvestedOf(resolved, invested) == IF resolved THEN invested ELSE RInt(0)

RECURSIVE PortfolioRows(_, _, _, _, _)
\* The loop over the positions: the rows of the table, the totals, and the
\* database after the price lookups.  answer[t] is what the adapter says of t.
PortfolioRows(db, rows, now, offset, answer) ==
    IF rows = <<>>
    THEN [db |-> db, table |-> <<>>, total_invested |-> RInt(0),
          total_current_value |-> RInt(0)]
    ELSE LET pos == Head(rows)
             r == get_current_price(db, pos.ticker, pos.market, now, offset,
                                    answer[pos.ticker])
             resolved == Truthy(r.price)
             invested == RMul(pos.avg_buy_price, RInt(pos.quantity))
             current_value == IF resolved THEN RMul(r.price, RInt(pos.quantity))
                              ELSE RInt(0)
             line == [ticker |-> pos.ticker, quantity |-> pos.quantity,
                      avg_buy_price |-> format_currency(pos.avg_buy_price, pos.market),
                      pending |-> ~resolved, looked_up |-> r.price,
                      current_price |-> IF resolved
                                        THEN format_currency(r.price, pos.market)
                                        ELSE format_currency(RInt(0), pos.market),
                      market |-> pos.market]
             rest == PortfolioRows(r.db, Tail(rows), now, offset, answer)
         IN  [db |-> rest.db, table |-> <<line>> \o rest.table,
              total_invested |-> RAdd(InvestedOf(resolved, invested), rest.total_invested),
              total_current_value |-> RAdd(current_value, rest.total_current_value)]

view_portfolio(db, now, offset, answer) ==
    LET positions_ == get_all_positions(db)
        t == PortfolioRows(db, positions_, now, offset, answer)
        summary == RPos(t.total_invested)
        total_pnl == RSub(t.total_current_value, t.total_invested)
    IN  IF positions_ = <<>>
        THEN [db |-> db, report |-> [empty |-> TRUE, table |-> <<>>, summary |-> FALSE,
                                     total_invested |-> format_currency(RInt(0), VN),
                                     total_current_value |-> format_currency(RInt(0), VN),
                                     total_pnl |-> format_currency(RInt(0), VN)]]
        ELSE [db |-> t.db,
              report |-> [empty |-> FALSE, table |-> t.table, summary |-> summary,
                          total_invested |-> format_currency(t.total_invested, VN),
                          total_current_value |-> format_currency(t.total_current_value, VN),
                          total_pnl |-> format_currency(total_pnl, VN)]]

\* A caller invokes view_portfolio(); answer is what the adapters say
ViewPortfolio ==
    \E answer \in [DOMAIN positions -> {NoPrice} \cup UNION {AdapterAnswers(m) : m \in Markets}] :
        /\ \A t \in DOMAIN positions : answer[t] \in AdapterAnswers(positions[t].market)
        /\ LET r == view_portfolio(DB, clock, host_offset, answer)
           IN  /\ Store(r.db)
               /\ lastRead' = [NoRead EXCEPT !.op = "view_portfolio", !.report = r.report]
        /\ UNCHANGED <<clock, host_offset, last, pc, call, txn, lock, hist>>

\* Inputs: buys of three tickers in the two markets, one of them at a price that
\* leaves an average with decimals, and a sell
PortfolioOrders ==
    {Order(<<"a">>, BUY, 100, 85000, VN), Order(<<"a">>, BUY, 50, 88001, VN),
     Order(<<"B">>, BUY, 30, 150, US), Order(<<"c">>, BUY, 10, 20000, VN),
     Order(<<"a">>, SELL, 100, 88000, VN)}

NextPortfolio ==
    \/ \E o \in PortfolioOrders :
          AddTransaction(o.ticker, o.type, o.quantity, o.price, o.market)
    \/ ViewPortfolio

SpecPortfolio == InitTool /\ [][NextPortfolio]_vars

RECURSIVE SumOver(_, _)
\* The sum of value[t] over the tickers t of a set
SumOver(tickers, value) ==
    IF tickers = {} THEN RInt(0)
    ELSE LET t == CHOOSE x \in tickers : TRUE
         IN  RAdd(value[t], SumOver(tickers \ {t}, value))

\* The tickers of the report whose price lookup gave a price
Resolved(report) ==
    {report.table[i].ticker : i \in {j \in 1..Len(report.table) :
                                        Truthy(report.table[j].looked_up)}}

\* The price view_portfolio got for ticker t
LookedUp(report, t) ==
    report.table[CHOOSE i \in 1..Len(report.table) : report.table[i].ticker = t].looked_up

\* This step is a call of view_portfolio (it changes no table but price_cache)
ViewStep ==
    /\ lastRead'.op = "view_portfolio"
    /\ UNCHANGED <<transactions, positions, realized_pnl, last>>

(***************************************************************************)
(* C16: the report of view_portfolio has one row for every position, in    *)
(* ascending ticker order; a row is marked pending exactly when the price  *)
(* lookup of its ticker failed; the totals are the sums of avg_buy_price x *)
(* quantity and of price x quantity over the positions whose price was     *)
(* found, and total P&L their difference.                                  *)
(***************************************************************************)
C16_Step ==
    (ViewStep /\ ~lastRead'.report.empty) =>
        LET report == lastRead'.report
            table == report.table
            invested == [t \in DOMAIN positions |->
                            RMul(positions[t].avg_buy_price, RInt(positions[t].quantity))]
            value == [t \in DOMAIN positions |->
                         RMul(LookedUp(report, t), RInt(positions[t].quantity))]
        IN  /\ {table[i].ticker : i \in 1..Len(table)} = DOMAIN positions
            /\ Len(table) = Cardinality(DOMAIN positions)
            /\ \A i \in 1..(Len(table) - 1) : StrLess(table[i].ticker, table[i + 1].ticker)
            /\ \A i \in 1..Len(table) : table[i].pending <=> ~Truthy(table[i].looked_up)
            /\ report.total_invested = format_currency(SumOver(Resolved(report), invested), VN)
            /\ report.total_current_value
                   = format_currency(SumOver(Resolved(report), value), VN)
            /\ report.total_pnl
                   = format_currency(RSub(SumOver(Resolved(report), value),
                                          SumOver(Resolved(report), invested)), VN)

C16_ReportOverResolved == [][C16_Step]_vars

\* A report over the two positions held, the price of one of them not found, one
\* of them at an average cost with decimals
C16_Witness ==
    /\ lastRead.op = "view_portfolio"
    /\ Len(lastRead.report.table) = 2
    /\ {lastRead.report.table[i].ticker : i \in 1..2} = DOMAIN positions
    /\ \E i, j \in 1..2 : /\ lastRead.report.table[i].pending
                          /\ ~lastRead.report.table[j].pending
    /\ lastRead.report.summary
    /\ \E t \in DOMAIN positions : positions[t].avg_buy_price.d # 1


(***************************************************************************)
(* State machine: get_realized_pnl_summary asked on a ledger where 100     *)
(* shares of two tickers were bought at 85000 and up to MaxSells sells of  *)
(* 10 shares were recorded: of the one above, at or below that price, of   *)
(* the other below it.                                                     *)
(***************************************************************************)
SellPrices == {88000, 85000, 80000}

SummarySells ==
    {Order(<<"a">>, SELL, 10, p, VN) : p \in SellPrices}
    \cup {Order(<<"B">>, SELL, 10, 80000, VN)}

RECURSIVE Recorded(_, _, _)
\* The content after the orders of a list were given to add_transaction in turn
Recorded(db, orders, now) ==
    IF orders = <<>> THEN db
    ELSE Recorded(add_transaction(db, Head(orders).ticker, Head(orders).type,
                                  Head(orders).quantity, RInt(Head(orders).price),
                                  Head(orders).market, <<>>, now).db,
                  Tail(orders), now)

InitSummary ==
    /\ \E n \in 0..MaxSells : \E sells \in [1..n -> SummarySells] :
          LET db == Recorded(EmptyDB,
                             <<Order(<<"a">>, BUY, 100, 85000, VN),
                               Order(<<"B">>, BUY, 100, 85000, VN)>> \o sells, 0)
          IN  /\ transactions = db.transactions
              /\ positions = db.positions
              /\ realized_pnl = db.realized_pnl
              /\ price_cache = db.price_cache
              /\ sqlite_sequence = db.sqlite_sequence
    /\ clock = 0
    /\ host_offset = 0
    /\ last = NoCall
    /\ NoConnections

NextSummary == \E ticker \in {<<>>, <<"a">>, <<"B">>} : GetRealizedPnlSummary(ticker)

SpecSummary == InitSummary /\ [][NextSummary]_vars

\* The rows of realized_pnl the summary last asked for is about
Summarized ==
    {i \in 1..Len(realized_pnl) :
        lastRead.ticker = <<>> \/ realized_pnl[i].ticker = Upper(lastRead.ticker)}

RECURSIVE SumPnlOf(_)
SumPnlOf(rows) ==
    IF rows = {} THEN RInt(0)
    ELSE LET i == CHOOSE x \in rows : TRUE
         IN  RAdd(realized_pnl[i].pnl, SumPnlOf(rows \ {i}))

(***************************************************************************)
(* C17: get_realized_pnl_summary returns the number of the rows of         *)
(* realized_pnl (of the ticker, when one is given) as total_trades, the    *)
(* number of those with pnl > 0 as winning_trades, with pnl < 0 as         *)
(* losing_trades, their sum of pnl as total_pnl, and winning_trades /      *)
(* total_trades x 100 as win_rate: 0 when there is no row, 60 for 3 wins   *)
(* and 2 losses.                                                           *)
(***************************************************************************)
C17_SummaryCounts ==
    lastRead.op = "get_realized_pnl_summary" =>
        LET summary == lastRead.summary
            won == {i \in Summarized : realized_pnl[i].pnl.n > 0}
            lost == {i \in Summarized : realized_pnl[i].pnl.n < 0}
        IN  /\ summary.total_trades = Cardinality(Summarized)
            /\ summary.winning_trades = Cardinality(won)
            /\ summary.losing_trades = Cardinality(lost)
            /\ summary.total_pnl = SumPnlOf(Summarized)
            /\ Summarized = {} => summary.win_rate = RInt(0)
            /\ Summarized # {} =>
                   RMul(summary.win_rate, RInt(Cardinality(Summarized)))
                       = RInt(100 * Cardinality(won))
            /\ (Cardinality(won) = 3 /\ Cardinality(lost) = 2 /\ Cardinality(Summarized) = 5)
                   => summary.win_rate = RInt(60)

\* The summary of one ticker, asked on a ledger with 3 winning and 2 losing sells
\* of it
C17_Witness ==
    /\ lastRead.op = "get_realized_pnl_summary"
    /\ lastRead.ticker = <<"a">>
    /\ lastRead.summary.total_trades = 5
    /\ lastRead.summary.winning_trades = 3
    /\ lastRead.summary.losing_trades = 2
    /\ lastRead.summary.win_rate = RInt(60)


(***************************************************************************)
(* State machine: the history asked on a ledger where up to MaxOps orders  *)
(* were given to add_transaction from one minute before midnight on, each  *)
(* in the same minute as the one before or a minute later.                 *)
(***************************************************************************)
\* limit: int = 20
DefaultLimit == 20

\* view_history: the ticker in upper case when one is given, the rows of
\* get_transaction_history as lines of the table, or the message that there is none
view_history(db, ticker, limit) ==
    {[empty |-> rows = <<>>,
      table |-> [i \in 1..Len(rows) |->
                    [date |-> rows[i].date, time |-> rows[i].time, type |-> rows[i].type,
                     ticker |-> rows[i].ticker, quantity |-> rows[i].quantity,
                     price |-> format_currency(rows[i].price, rows[i].market),
                     total |-> format_currency(RMul(RInt(rows[i].quantity), rows[i].price),
                                               rows[i].market),
                     market |-> rows[i].market, notes |-> rows[i].notes]]] :
        rows \in get_transaction_history(db, Upper(ticker), limit)}

\* A caller invokes view_history(ticker, limit)
ViewHistory(ticker, limit) ==
    /\ \E report \in view_history(ReaderView, ticker, limit) :
          lastRead' = [NoRead EXCEPT !.op = "view_history", !.ticker = ticker,
                                     !.limit = limit, !.report = report]
    /\ UNCHANGED <<tables, clock, host_offset, last, pc, call, txn, lock, hist>>

HistoryOrders ==
    {Order(<<"a">>, BUY, 100, 85000, VN), Order(<<"B">>, BUY, 30, 150, US),
     Order(<<"a">>, SELL, 50, 88000, VN)}

HistorySteps == {[order |-> o, gap |-> g] : o \in HistoryOrders, g \in {0, 1}}

RECURSIVE RecordedAt(_, _, _)
\* The content, and the time, after the orders of a list were given to
\* add_transaction in turn, each gap minutes after the one before
RecordedAt(db, now, steps) ==
    IF steps = <<>> THEN [db |-> db, now |-> now]
    ELSE LET o == Head(steps).order
             at == now + Head(steps).gap
         IN  RecordedAt(add_transaction(db, o.ticker, o.type, o.quantity, RInt(o.price),
                                        o.market, <<>>, at).db,
                        at, Tail(steps))

InitHistory ==
    /\ \E n \in 0..MaxOps : \E steps \in [1..n -> HistorySteps] :
          LET r == RecordedAt(EmptyDB, MinutesPerDay - 1, steps)
          IN  /\ transactions = r.db.transactions
              /\ positions = r.db.positions
              /\ realized_pnl = r.db.realized_pnl
              /\ price_cache = r.db.price_cache
              /\ sqlite_sequence = r.db.sqlite_sequence
              /\ clock = r.now
    /\ host_offset = 0
    /\ last = NoCall
    /\ NoConnections

HistoryTickers == {<<>>, <<"a">>, <<"a", " ">>}
HistoryLimits == {DefaultLimit, 1, 0, -1}

NextHistory ==
    \E ticker \in HistoryTickers, limit \in HistoryLimits :
        \/ GetTransactionHistory(ticker, limit)
        \/ ViewHistory(ticker, limit)

SpecHistory == InitHistory /\ [][NextHistory]_vars

\* The rows of transactions a history query for ticker is about
Matching(ticker) ==
    {i \in 1..Len(transactions) : ticker = <<>> \/ transactions[i].ticker = Upper(ticker)}

(***************************************************************************)
(* C18: of any two transactions in a list get_transaction_history returns, *)
(* the one add_transaction recorded later (the one with the greater id)    *)
(* comes first, also when both were recorded at the same clock reading.    *)
(***************************************************************************)
C18_NewestFirst ==
    lastRead.op = "get_transaction_history" =>
        \A i, j \in 1..Len(lastRead.history) :
            i < j => lastRead.history[i].id > lastRead.history[j].id

(***************************************************************************)
(* C19: get_transaction_history with a positive limit returns at most      *)
(* limit rows, each one a row of transactions returned once, of the        *)
(* requested ticker when one is given; a matching row is left out only     *)
(* when limit rows are returned, none of them older than it.               *)
(***************************************************************************)
C19_LimitAndFilter ==
    (lastRead.op = "get_transaction_history" /\ lastRead.limit > 0) =>
        LET rows == lastRead.history
            returned == {rows[k].id : k \in 1..Len(rows)}
        IN  /\ Len(rows) <= lastRead.limit
            /\ Cardinality(returned) = Len(rows)
            /\ \A k \in 1..Len(rows) :
                   \E i \in Matching(lastRead.ticker) :
                       /\ transactions[i].id = rows[k].id
                       /\ transactions[i].ticker = rows[k].ticker
                       /\ transactions[i].date = rows[k].date
                       /\ transactions[i].time = rows[k].time
            /\ \A i \in Matching(lastRead.ticker) :
                   transactions[i].id \notin returned =>
                       /\ Len(rows) = lastRead.limit
                       /\ \A k \in 1..Len(rows) : ~Newer(transactions[i], rows[k])

\* The history of one ticker asked with limit 1 on a ledger with two rows of it and
\* one of another ticker: the newer row of the ticker is returned.
C19_Witness ==
    /\ lastRead.op = "get_transaction_history"
    /\ lastRead.ticker = <<"a">>
    /\ lastRead.limit = 1
    /\ Len(lastRead.history) = 1
    /\ Cardinality(Matching(<<"a">>)) = 2
    /\ Len(transactions) = 3
    /\ \E i \in Matching(<<"a">>) : Newer(lastRead.history[1], transactions[i])

(***************************************************************************)
(* C20: a history query with a limit of zero or less fails with an         *)
(* invalid-argument error, and returns no list of rows.                    *)
(***************************************************************************)
C20_NonPositiveLimitRejected ==
    (lastRead.op \in {"get_transaction_history", "view_history"} /\ lastRead.limit <= 0) =>
        lastRead.error = "InvalidArgument"

(***************************************************************************)
(* Position lifecycle of one ticker over one call of the ledger.           *)
(***************************************************************************)
\* Every stored Position row is open: at least one share, at a positive average
PositionRowsOpen(pos) ==
    \A t \in DOMAIN pos : pos[t].quantity >= 1 /\ RPos(pos[t].avg_buy_price)

\* The call of the step just taken succeeded on ticker t
SucceededOn(c, t) ==
    c.op = "add_transaction" /\ c.result.success /\ NormalizeTicker(c.ticker) = t

\* The transition of ticker t in the step just taken is one of the lifecycle
LifecycleStep(t) ==
    LET before == t \in DOMAIN positions
        after == t \in DOMAIN positions'
    IN  /\ (~before /\ after) => SucceededOn(last', t) /\ IsBuy(last')
        /\ (before /\ after /\ positions'[t] # positions[t]) =>
               /\ SucceededOn(last', t)
               /\ \/ IsBuy(last')
                  \/ IsSell(last') /\ last'.quantity < positions[t].quantity
        /\ (before /\ ~after) =>
               \/ /\ SucceededOn(last', t) /\ IsSell(last')
                  /\ last'.quantity = positions[t].quantity
               \/ last'.op = "clear_all_data"

(***************************************************************************)
(* C21: every Position row has quantity >= 1 and avg_buy_price > 0, and a  *)
(* ticker goes from absent to open only by a BUY, from open to open only   *)
(* by a BUY or a SELL of less than the held quantity, and from open to     *)
(* absent only by a SELL of exactly the held quantity or by a reset.       *)
(***************************************************************************)
C21_Step ==
    /\ PositionRowsOpen(positions) /\ PositionRowsOpen(positions')
    /\ \A t \in (DOMAIN positions) \cup (DOMAIN positions') : LifecycleStep(t)

C21_PositionLifecycle == [][C21_Step]_vars

\* bought, sold in part, and just sold out: the row is gone
C21_Witness ==
    /\ Len(transactions) = 3
    /\ transactions[1].type = BUY
    /\ transactions[2].type = SELL /\ transactions[2].quantity < transactions[1].quantity
    /\ IsSell(last) /\ last.result.success
    /\ LastTicker = transactions[1].ticker
    /\ LastTicker \notin DOMAIN positions

(***************************************************************************)
(* State machine: the ledger called in sequence, and the three queries     *)
(* and a price lookup called between its calls.                            *)
(***************************************************************************)
\* Orders on two tickers: buys, sells of a part and of the whole, sells too large
QueryOrders ==
    {Order(<<"b">>, BUY, 100, 85000, VN), Order(<<"b">>, SELL, 50, 88000, VN),
     Order(<<"b">>, SELL, 100, 85000, VN), Order(<<"A">>, BUY, 30, 90000, US),
     Order(<<"A">>, SELL, 30, 88000, US)}

QueryTickers == {<<>>, <<"b">>}

NextQuery ==
    \/ \E o \in QueryOrders :
          AddTransaction(o.ticker, o.type, o.quantity, o.price, o.market)
    \/ ClearAllData
    \/ GetAllPositions
    \/ \E t \in QueryTickers : GetTransactionHistory(t, DefaultLimit)
    \/ \E t \in QueryTickers : GetRealizedPnlSummary(t)
    \/ GetCurrentPrice(<<"b">>, VN, RInt(86000))

SpecQuery == Init /\ [][NextQuery]_vars

\* Sequence a is the beginning of sequence b
IsPrefix(a, b) == Len(a) <= Len(b) /\ SubSeq(b, 1, Len(a)) = a

\* The step just taken is a call of clear_all_data
ClearStep == last'.op = "clear_all_data" /\ lastRead' = lastRead

(***************************************************************************)
(* C22: between two resets transactions and realized_pnl are append-only:  *)
(* whatever buy, sell (successful or failed) or query is called, every row *)
(* of either log stays, at its place and with the same field values; only  *)
(* clear_all_data removes rows.                                            *)
(***************************************************************************)
C22_Step ==
    ~ClearStep => /\ IsPrefix(transactions, transactions')
                  /\ IsPrefix(realized_pnl, realized_pnl')

C22_LogsAppendOnly == [][C22_Step]_vars

\* both logs hold rows, a query was answered, and a sell has just failed
C22_Witness ==
    /\ Len(transactions) = 3 /\ Len(realized_pnl) >= 1
    /\ lastRead.op = "get_transaction_history" /\ Len(lastRead.history) = 3
    /\ IsSell(last) /\ ~last.result.success

\* The step just taken is a call of one of the three queries of the ledger
QueryStep ==
    /\ lastRead' # lastRead
    /\ lastRead'.op \in {"get_all_positions", "get_transaction_history",
                         "get_realized_pnl_summary"}

\* The list holds the rows of positions, one per ticker, in ascending ticker order
AscendingPositions(rows, pos) ==
    /\ Len(rows) = Cardinality(DOMAIN pos)
    /\ \A i \in 1..Len(rows) :
          /\ rows[i].ticker \in DOMAIN pos
          /\ rows[i].quantity = pos[rows[i].ticker].quantity
          /\ rows[i].avg_buy_price = pos[rows[i].ticker].avg_buy_price
          /\ rows[i].market = pos[rows[i].ticker].market
    /\ \A i, j \in 1..Len(rows) : i < j => StrLess(rows[i].ticker, rows[j].ticker)

(***************************************************************************)
(* C23: get_all_positions, get_transaction_history and                     *)
(* get_realized_pnl_summary are read-only: a call of any of them leaves    *)
(* transactions, positions, realized_pnl and price_cache unchanged; and    *)
(* get_all_positions returns the positions in ascending ticker order.      *)
(***************************************************************************)
C23_Step ==
    QueryStep =>
        /\ UNCHANGED <<transactions, positions, realized_pnl, price_cache>>
        /\ lastRead'.op = "get_all_positions" =>
               AscendingPositions(lastRead'.positions, positions)

C23_QueriesReadOnly == [][C23_Step]_vars

\* two positions bought in descending ticker order, a price cached, both logs
\* filled, and the positions just listed
C23_Witness ==
    /\ lastRead.op = "get_all_positions" /\ Len(lastRead.positions) = 2
    /\ AscendingPositions(lastRead.positions, positions)
    /\ Len(transactions) = 3 /\ transactions[1].ticker = <<"B">>
    /\ transactions[2].ticker = <<"A">>
    /\ Len(realized_pnl) = 1
    /\ price_cache # NoRows

(***************************************************************************)
(* State machine: get_current_price statement by statement, on a           *)
(* connection of its own, beside add_transaction and clear_all_data on     *)
(* other connections.  The SELECT on price_cache is finished by fetchone() *)
(* and begins no transaction; the adapter is asked with the connection     *)
(* open; INSERT OR REPLACE begins the transaction that conn.commit() ends. *)
(***************************************************************************)
\* Mutant: the cache row is claimed with a write before the adapter is asked
CacheCheckKeepsLock(c) == IF lock = 0 THEN c ELSE lock

\* The write lock of the file once the SELECT on price_cache has been fetched
CacheCheckLock(c) == lock

\* INSERT OR REPLACE INTO price_cache (ticker, price, last_updated)
InsertOrReplacePrice(db, ticker, price, stamp) ==
    [db EXCEPT !.price_cache = Put(@, ticker, [price |-> price, last_updated |-> stamp])]

\* What a call of get_current_price gives back
PriceResult(ticker, market, price, asked, error) ==
    [NoRead EXCEPT !.op = "get_current_price", !.ticker = ticker, !.market = market,
                   !.price = price, !.asked = asked, !.error = error]

\* Connection c enters get_current_price and reads the cache: a fresh entry is
\* returned, otherwise the adapter of the market is asked.  began: the number of
\* calls committed so far.
LookupBegin(c, raw_ticker, market) ==
    LET ticker == NormalizeTicker(raw_ticker)
        hit == /\ ticker \in DOMAIN ReaderView.price_cache
               /\ CacheIsFresh(ReaderView.price_cache[ticker], clock)
    IN  /\ pc[c] = "idle"
        /\ lock' = CacheCheckLock(c)
        /\ IF hit
           THEN /\ lastRead' = PriceResult(raw_ticker, market,
                                           ReaderView.price_cache[ticker].price, FALSE, "")
                /\ UNCHANGED <<pc, call>>
           ELSE /\ pc' = [pc EXCEPT ![c] = "fetch"]
                /\ call' = [call EXCEPT ![c] =
                               [op |-> "get_current_price", ticker |-> ticker,
                                market |-> market, price |-> NoPrice,
                                began |-> Len(hist), result |-> NoResult]]
                /\ UNCHANGED lastRead
        /\ UNCHANGED <<tables, clock, host_offset, last, txn, hist>>

\* _fetch_price_vnstock or _fetch_price_yfinance returns: None, or a price
AdapterReturns(c, fetched) ==
    /\ pc[c] = "fetch"
    /\ IF fetched = NoPrice
       THEN /\ pc' = [pc EXCEPT ![c] = "idle"]
            /\ call' = [call EXCEPT ![c] = NoCall]
            /\ lastRead' = PriceResult(call[c].ticker, call[c].market, NoPrice, TRUE, "")
            /\ UNCHANGED last
       ELSE /\ pc' = [pc EXCEPT ![c] = "replace"]
            /\ call' = [call EXCEPT ![c].price = fetched]
            /\ last' = [NoCall EXCEPT !.op = "_fetch_price", !.ticker = call[c].ticker,
                                      !.market = call[c].market, !.price = fetched]
            /\ UNCHANGED lastRead
    /\ UNCHANGED <<tables, clock, host_offset, txn, lock, hist>>

\* cursor.execute(INSERT OR REPLACE INTO price_cache ...): begins the transaction
ExecReplace(c) ==
    /\ pc[c] = "replace"
    /\ CanWrite(c)
    /\ txn' = [txn EXCEPT ![c] = InsertOrReplacePrice(DB, call[c].ticker, call[c].price,
                                                      clock + host_offset)]
    /\ lock' = c
    /\ pc' = [pc EXCEPT ![c] = "cached"]
    /\ UNCHANGED <<tables, clock, host_offset, last, call, hist, lastRead>>

\* The same statement when another connection keeps the write lock for the 5 seconds
\* sqlite3 waits: OperationalError, caught by except Exception, None is returned
ReplaceBusy(c) ==
    /\ pc[c] = "replace"
    /\ ~CanWrite(c)
    /\ pc' = [pc EXCEPT ![c] = "idle"]
    /\ call' = [call EXCEPT ![c] = NoCall]
    /\ lastRead' = PriceResult(call[c].ticker, call[c].market, NoPrice, TRUE,
                               "OperationalError")
    /\ UNCHANGED <<tables, clock, host_offset, last, txn, lock, hist>>

\* conn.commit(), and the price is returned
LookupCommit(c) ==
    /\ pc[c] = "cached"
    /\ Store(Commit(DB, txn[c]))
    /\ lock' = IF lock = c THEN 0 ELSE lock
    /\ pc' = [pc EXCEPT ![c] = "idle"]
    /\ txn' = [txn EXCEPT ![c] = EmptyDB]
    /\ call' = [call EXCEPT ![c] = NoCall]
    /\ lastRead' = PriceResult(call[c].ticker, call[c].market, call[c].price, TRUE, "")
    /\ UNCHANGED <<clock, host_offset, last, hist>>

\* The prices the adapter answers for the one ticker looked up: the price moves
LookupAnswers == {NoPrice, RInt(87500), RInt(88000)}

LookupOrders == {Order(<<"a">>, BUY, 100, 85000, VN)}

\* Lookups on both connections, the ledger's calls on the first
NextLookup ==
    \/ \E c \in Connections :
          \/ LookupBegin(c, <<"a">>, VN)
          \/ \E fetched \in LookupAnswers : AdapterReturns(c, fetched)
          \/ ExecReplace(c)
          \/ ReplaceBusy(c)
          \/ LookupCommit(c)
    \/ \E o \in LookupOrders : Begin(1, o)
    \/ BeginClear(1)
    \/ ExecInsert(1)
    \/ BusyTimeout(1)
    \/ ExecHandle(1)
    \/ ExecClear(1)
    \/ ExecCommit(1)
    \/ ExecRollback(1)

SpecLookup == Init /\ [][NextLookup]_vars

\* Connection c is in get_current_price, waiting for the adapter
WaitsForAdapter(c) == pc[c] = "fetch"

(***************************************************************************)
(* C24: a get_current_price that waits for the adapter holds no write lock *)
(* and has no transaction open: the first write of an add_transaction or a *)
(* clear_all_data on another connection is not held up during the wait.    *)
(***************************************************************************)
C24_NoLockWhileWaiting ==
    \A c \in Connections :
        WaitsForAdapter(c) =>
            /\ lock # c
            /\ txn[c] = EmptyDB
            /\ \A d \in Connections \ {c} : pc[d] \in {"insert", "clear"} => CanWrite(d)

\* since connection 2 began to wait for the adapter, connection 1 has committed a
\* clear_all_data and then begun and committed a buy
C24_Witness ==
    /\ WaitsForAdapter(2) /\ call[2].began = 0
    /\ Len(hist) = 2
    /\ hist[1].conn = 1 /\ hist[1].call.op = "clear_all_data"
    /\ hist[2].conn = 1 /\ hist[2].call.op = "add_transaction"
    /\ Len(transactions) = 1

(***************************************************************************)
(* State machine: view_portfolio position by position.  It reads the       *)
(* positions, then calls get_current_price for each in turn and waits for  *)
(* the adapter where the cache has no fresh entry; the code sets no        *)
(* timeout on the adapter call, so the wait ends when the adapter answers. *)
(***************************************************************************)
\* The report of view_portfolio from the rows and totals of its loop
ReportOf(t) ==
    [empty |-> FALSE, table |-> t.table, summary |-> RPos(t.total_invested),
     total_invested |-> format_currency(t.total_invested, VN),
     total_current_value |-> format_currency(t.total_current_value, VN),
     total_pnl |-> format_currency(RSub(t.total_current_value, t.total_invested), VN)]

\* Connection c enters view_portfolio: positions = get_all_positions()
ViewBegin(c) ==
    LET positions_ == get_all_positions(ReaderView)
    IN  /\ pc[c] = "idle"
        /\ IF positions_ = <<>>
           THEN /\ lastRead' = [NoRead EXCEPT !.op = "view_portfolio",
                                              !.report = view_portfolio(DB, clock, host_offset,
                                                                        <<>>).report]
                /\ UNCHANGED <<pc, call>>
           ELSE /\ pc' = [pc EXCEPT ![c] = "price"]
                /\ call' = [call EXCEPT ![c] =
                               [op |-> "view_portfolio", todo |-> positions_,
                                table |-> <<>>, total_invested |-> RInt(0),
                                total_current_value |-> RInt(0), result |-> NoResult]]
                /\ UNCHANGED lastRead
        /\ UNCHANGED <<tables, clock, host_offset, last, txn, lock, hist>>

\* One turn of the loop done with what the adapter said (if it was asked)
ViewRowDone(c, fetched) ==
    LET pos == Head(call[c].todo)
    IN  /\ \E r \in {PortfolioRows(DB, <<pos>>, clock, host_offset,
                                     [t \in {pos.ticker} |-> fetched])} :
              /\ Store(r.db)
              /\ call' = [call EXCEPT ![c].todo = Tail(@),
                                      ![c].table = @ \o r.table,
                                      ![c].total_invested = RAdd(@, r.total_invested),
                                      ![c].total_current_value =
                                          RAdd(@, r.total_current_value)]
        /\ pc' = [pc EXCEPT ![c] = IF Tail(call[c].todo) = <<>> THEN "report" ELSE "price"]

\* current_price = get_current_price(ticker, market): answered from the cache, or
\* the adapter is asked
ViewPrice(c) ==
    /\ pc[c] = "price"
    /\ LET pos == Head(call[c].todo)
       IN  IF get_current_price(DB, pos.ticker, pos.market, clock, host_offset,
                                NoPrice).asked
           THEN /\ pc' = [pc EXCEPT ![c] = "fetch"]
                /\ UNCHANGED <<tables, call>>
           ELSE ViewRowDone(c, NoPrice)
    /\ UNCHANGED <<clock, host_offset, last, txn, lock, hist, lastRead>>

\* The adapter answers: None, or a price
ViewAdapterReturns(c, fetched) ==
    /\ pc[c] = "fetch"
    /\ call[c].op = "view_portfolio"
    /\ fetched \in AdapterAnswers(Head(call[c].todo).market)
    /\ ViewRowDone(c, fetched)
    /\ UNCHANGED <<clock, host_offset, last, txn, lock, hist, lastRead>>

\* return output
ViewReturn(c) ==
    /\ pc[c] = "report"
    /\ lastRead' = [NoRead EXCEPT !.op = "view_portfolio", !.report = ReportOf(call[c])]
    /\ pc' = [pc EXCEPT ![c] = "idle"]
    /\ call' = [call EXCEPT ![c] = NoCall]
    /\ UNCHANGED <<tables, clock, host_offset, last, txn, lock, hist>>

ViewOrders ==
    {Order(<<"a">>, BUY, 100, 85000, VN), Order(<<"B">>, BUY, 30, 150, US),
     Order(<<"a">>, SELL, 100, 88000, VN)}

NextView ==
    \/ \E o \in ViewOrders :
          AddTransaction(o.ticker, o.type, o.quantity, o.price, o.market)
    \/ ViewBegin(1)
    \/ ViewPrice(1)
    \/ \E fetched \in UNION {AdapterAnswers(m) : m \in Markets} :
          ViewAdapterReturns(1, fetched)
    \/ ViewReturn(1)

\* The steps of view_portfolio itself are taken when they can be; whether and when
\* the adapter answers is up to the price source.
SpecView ==
    /\ Init /\ [][NextView]_vars
    /\ WF_vars(ViewPrice(1)) /\ WF_vars(ViewReturn(1))

\* The same with an adapter that always answers in the end
SpecViewAnswered ==
    /\ SpecView
    /\ WF_vars(\E fetched \in UNION {AdapterAnswers(m) : m \in Markets} :
                  ViewAdapterReturns(1, fetched))

(***************************************************************************)
(* C25: view_portfolio always eventually returns a report, also when the   *)
(* adapter never answers for a ticker: the lookup is given up after a      *)
(* bounded wait and the ticker reported as pending.                        *)
(***************************************************************************)
C25_ViewReturns == (pc[1] # "idle") ~> (pc[1] = "idle")

(***************************************************************************)
(* State machine: buy_stock with the price lookup of its validation kept   *)
(* in lastRead, price lookups of other callers, and the passing of time.   *)
(***************************************************************************)
\* The tool buy_stock is called; fetched is what the adapter answers if asked
BuyStockLookedUp(raw_ticker, quantity, price, raw_market, fetched) ==
    LET r == buy_stock(DB, raw_ticker, quantity, RInt(price), raw_market, <<>>,
                       clock, host_offset, fetched)
        v == get_current_price(DB, Upper(raw_ticker), Upper(raw_market), clock,
                               host_offset, fetched)
    IN  /\ r.db.sqlite_sequence.transactions <= MaxOps
        /\ Store(r.db)
        /\ last' = [op |-> "buy_stock", ticker |-> raw_ticker, type |-> BUY,
                    quantity |-> quantity, price |-> RInt(price),
                    market |-> raw_market, result |-> r.result]
        /\ lastRead' = IF r.result.error \in {"InvalidQuantity", "InvalidPrice",
                                              "InvalidMarket"}
                       THEN lastRead
                       ELSE [PriceResult(Upper(raw_ticker), Upper(raw_market), v.price,
                                         v.asked, "") EXCEPT !.op = "validate_ticker"]
        /\ UNCHANGED <<clock, host_offset, pc, call, txn, lock, hist>>

BuyArguments ==
    {Order(<<"a">>, BUY, 50, 85000, <<"v", "n">>), Order(<<"a">>, BUY, 0, 85000, VN)}

NextBuy ==
    \/ \E o \in BuyArguments : \E fetched \in AdapterAnswers(Upper(o.market)) :
          BuyStockLookedUp(o.ticker, o.quantity, o.price, o.market, fetched)
    \/ GetCurrentPrice(<<"a">>, VN, RInt(87500))
    \/ Tick

SpecBuy == InitTool /\ [][NextBuy]_vars

\* The step just taken is a buy_stock with valid arguments for which no price was
\* had: no fresh cache entry before the call, and the adapter answered None
BuyUnpriced ==
    /\ last'.op = "buy_stock" /\ ~InvalidArguments(last')
    /\ lastRead'.op = "validate_ticker"
    /\ lastRead'.ticker = Upper(last'.ticker) /\ lastRead'.market = Upper(last'.market)
    /\ clock' = clock
    /\ ~(/\ NormalizeTicker(last'.ticker) \in DOMAIN price_cache
         /\ CacheIsFresh(price_cache[NormalizeTicker(last'.ticker)], clock))
    /\ lastRead'.asked /\ lastRead'.price = NoPrice

(***************************************************************************)
(* C26: a buy_stock for whose ticker no price can be had (no fresh cache   *)
(* entry, the adapter unavailable) returns an error, appends no row to     *)
(* transactions and creates or changes no positions row.                   *)
(***************************************************************************)
C26_Step ==
    BuyUnpriced => /\ ~last'.result.success /\ last'.result.error # ""
                   /\ UNCHANGED <<transactions, positions, realized_pnl>>

C26_BuyFailsClosed == [][C26_Step]_vars

\* a ticker bought when its price was to be had, its cache entry no longer fresh,
\* and a further buy just refused because the adapter gave no price
C26_Witness ==
    /\ last.op = "buy_stock" /\ ~InvalidArguments(last)
    /\ last.result.error = "UnknownTicker"
    /\ lastRead.op = "validate_ticker" /\ lastRead.asked /\ lastRead.price = NoPrice
    /\ NormalizeTicker(last.ticker) \in DOMAIN positions
    /\ NormalizeTicker(last.ticker) \in DOMAIN price_cache
    /\ host_offset = 0 /\ clock >= FreshnessMinutes
    /\ Len(transactions) = 1

(***************************************************************************)
(* State machine: get_current_price for one ticker on two connections,     *)
(* with every wait for the write lock shorter than the busy timeout.       *)
(***************************************************************************)
NextRace ==
    \/ \E c \in Connections :
          \/ LookupBegin(c, <<"a">>, VN)
          \/ \E fetched \in LookupAnswers : AdapterReturns(c, fetched)
          \/ ExecReplace(c)
          \/ LookupCommit(c)
    \/ Tick

SpecRace == Init /\ [][NextRace]_vars

\* No call holds a fetched price that it has not yet committed to the cache
AllFetchesStored == \A c \in Connections : pc[c] \notin {"replace", "cached"}

(***************************************************************************)
(* C27: under every interleaving of get_current_price calls for a ticker,  *)
(* once the calls that fetched a price have stored it, the price_cache     *)
(* entry of the ticker holds the price of the adapter call that completed  *)
(* last.                                                                   *)
(***************************************************************************)
C27_CacheHoldsLastFetch ==
    (AllFetchesStored /\ last.op = "_fetch_price") =>
        /\ last.ticker \in DOMAIN price_cache
        /\ price_cache[last.ticker].price = last.price

\* Connection c has its transaction open in a SELL whose two checks have not
\* passed: _handle_sell has not yet run, or one of its checks raised
SellUnchecked(c) ==
    /\ call[c].op = "add_transaction" /\ call[c].type = SELL
    /\ pc[c] \in {"handle", "rollback"}
    /\ lock = c

\* The SELL row of the call of connection c is the one row its open transaction
\* has added to transactions
OwnRowInserted(c) ==
    /\ Len(txn[c].transactions) = Len(transactions) + 1
    /\ SubSeq(txn[c].transactions, 1, Len(transactions)) = transactions
    /\ LET row == txn[c].transactions[Len(txn[c].transactions)]
       IN  /\ row.ticker = call[c].ticker /\ row.type = SELL
           /\ row.quantity = call[c].quantity /\ row.price = call[c].price

C29_Step ==
    (IsBuy(last') /\ last'.result.success
       /\ NormalizeTicker(last'.ticker) \in DOMAIN positions
       /\ Len(transactions') = Len(transactions) + 1) =>
        LET t == NormalizeTicker(last'.ticker)
            Q == positions[t].quantity
            A == positions[t].avg_buy_price
            q == last'.quantity
            p == last'.price
        IN  /\ t \in DOMAIN positions'
            /\ positions'[t].quantity = Q + q
            /\ RMul(positions'[t].avg_buy_price, RInt(Q + q))
                   = RAdd(RMul(RInt(Q), A), RMul(RInt(q), p))
            /\ positions'[t].market = positions[t].market

C29_BuyOnOpenPosition == [][C29_Step]_vars

\* bought in VN, sold in part, and bought again at another price under the US tag:
\* 50 @ 85000 and 30 @ 90000 make 80 @ 86875, still VN
C29_Witness ==
    /\ Len(transactions) = 3
    /\ transactions[1].type = BUY /\ transactions[1].quantity = 100
    /\ transactions[1].price = RInt(85000) /\ transactions[1].market = VN
    /\ transactions[2].type = SELL /\ transactions[2].quantity = 50
    /\ transactions[3].type = BUY /\ transactions[3].quantity = 30
    /\ transactions[3].price = RInt(90000) /\ transactions[3].market = US
    /\ \A i \in 1..3 : transactions[i].ticker = <<"A">>
    /\ IsBuy(last) /\ last.result.success
    /\ positions[<<"A">>].quantity = 80
    /\ positions[<<"A">>].avg_buy_price = RInt(86875)
    /\ positions[<<"A">>].market = VN

(***************************************************************************)
(* State machine: the ledger called in sequence while time passes.         *)
(***************************************************************************)
TimedOrders ==
    {Order(<<"a", " ">>, BUY, 100, 85000, VN), Order(<<"a">>, BUY, 50, 88000, VN),
     Order(<<"A">>, SELL, 50, 90000, VN), Order(<<" ", "a">>, SELL, 100, 80000, US)}

NextTimed ==
    \/ \E o \in TimedOrders :
          AddTransaction(o.ticker, o.type, o.quantity, o.price, o.market)
    \/ Tick

SpecTimed == Init /\ [][NextTimed]_vars

(***************************************************************************)
(* C30: the realized_pnl row appended by a successful SELL of quantity q   *)
(* at price p has the normalized ticker, quantity q, sell_price p, as      *)
(* buy_price the avg_buy_price the Position had before the sell, and the   *)
(* sell_date and sell_time of the date and time on the SELL row that the   *)
(* same call appended to transactions.                                     *)
(***************************************************************************)
C30_Step ==
    (IsSell(last') /\ last'.result.success
       /\ Len(realized_pnl') = Len(realized_pnl) + 1) =>
        LET t == NormalizeTicker(last'.ticker)
            row == realized_pnl'[Len(realized_pnl')]
            sold == transactions'[Len(transactions')]
        IN  /\ Len(transactions') = Len(transactions) + 1
            /\ sold.type = SELL /\ sold.ticker = t
            /\ sold.id = last'.result.transaction_id
            /\ row.ticker = t
            /\ row.quantity = last'.quantity
            /\ row.sell_price = last'.price
            /\ t \in DOMAIN positions
            /\ row.buy_price = positions[t].avg_buy_price
            /\ row.sell_date = sold.date
            /\ row.sell_time = sold.time

C30_RealizedRowOfSell == [][C30_Step]_vars

\* 100 @ 85000 and 50 @ 88000 bought, and some minutes later 50 sold at 90000:
\* the row has buy_price 86000 and the time of the sale
C30_Witness ==
    /\ Len(transactions) = 3 /\ Len(realized_pnl) = 1
    /\ IsSell(last) /\ last.result.success /\ last.quantity = 50
    /\ realized_pnl[1].buy_price = RInt(86000)
    /\ realized_pnl[1].sell_price = RInt(90000)
    /\ realized_pnl[1].sell_time = transactions[3].time
    /\ transactions[3].time > transactions[1].time
    /\ transactions[3].time = clock

(***************************************************************************)
(* C31: a call of get_current_price that finds no fresh cache entry and is *)
(* told by the adapter that the price is unavailable returns None and      *)
(* leaves price_cache as it was: no entry is created, an entry no longer   *)
(* fresh is neither deleted nor stamped anew.                              *)
(***************************************************************************)
C31_Step ==
    (PriceStep /\ lastRead'.asked /\ lastRead'.price = NoPrice) =>
        UNCHANGED <<price_cache, transactions, positions, realized_pnl>>

C31_UnavailableLeavesCache == [][C31_Step]_vars

\* on a host in the reference timezone an entry was written, went stale, and a
\* lookup of the ticker has asked the adapter in vain: the entry is still there
C31_Witness ==
    /\ lastRead.op = "get_current_price" /\ lastRead.asked /\ lastRead.price = NoPrice
    /\ host_offset = 0
    /\ NormalizeTicker(lastRead.ticker) \in DOMAIN price_cache
    /\ ~CacheIsFresh(price_cache[NormalizeTicker(lastRead.ticker)], clock)
    /\ price_cache[NormalizeTicker(lastRead.ticker)].last_updated = 0

(***************************************************************************)
(* State machine: the ledger called in sequence with the orders of Spec    *)
(* and with buys that fail: a quantity of 0, a market tag unknown.         *)
(***************************************************************************)
FailingBuys ==
    {Order(<<"a">>, BUY, 0, 85000, VN), Order(<<"B">>, BUY, 100, 88000, <<"H", "K">>)}

NextLedger ==
    \/ \E o \in LedgerOrders \cup FailingBuys :
          AddTransaction(o.ticker, o.type, o.quantity, o.price, o.market)
    \/ ClearAllData

SpecLedger == Init /\ [][NextLedger]_vars

RECURSIVE SumRealizedQuantity(_, _)
\* The sum of the quantities of the realized_pnl rows of ticker t
SumRealizedQuantity(rows, t) ==
    IF rows = <<>> THEN 0
    ELSE (IF Head(rows).ticker = t THEN Head(rows).quantity ELSE 0)
         + SumRealizedQuantity(Tail(rows), t)

\* realized_pnl has as many rows as transactions has SELL rows, and per ticker the
\* same quantity sold
SellsRealized(trans, realized) ==
    /\ Len(realized) = Len(SelectSeq(trans, LAMBDA r : r.type = SELL))
    /\ \A t \in {trans[i].ticker : i \in 1..Len(trans)}
                \cup {realized[i].ticker : i \in 1..Len(realized)} :
          SumRealizedQuantity(realized, t) = SumQuantity(trans, t, SELL)

(***************************************************************************)
(* C32: in every reachable state realized_pnl corresponds one-to-one to    *)
(* the SELL rows of transactions: as many rows, per ticker the same sum of *)
(* quantities; and a BUY, successful or failed, adds no realized_pnl row.  *)
(***************************************************************************)
C32_Step ==
    /\ SellsRealized(transactions, realized_pnl)
    /\ SellsRealized(transactions', realized_pnl')
    /\ IsBuy(last') => realized_pnl' = realized_pnl

C32_RealizedOnlyBySell == [][C32_Step]_vars

\* bought, sold in part, and a buy of quantity 0 just refused: one realized_pnl
\* row, of the sell
C32_Witness ==
    /\ Len(realized_pnl) = 1 /\ Len(transactions) = 2
    /\ IsBuy(last) /\ ~last.result.success /\ last.quantity = 0
    /\ transactions[2].type = SELL
    /\ realized_pnl[1].ticker = transactions[2].ticker
    /\ realized_pnl[1].quantity = transactions[2].quantity
    /\ transactions[2].quantity < transactions[1].quantity


(***************************************************************************)
(* State machine: the ledger after 100 shares of two tickers were bought   *)
(* at 85000, called in sequence with sells of 10 shares above, at and      *)
(* below that price, a sell of more than is held, a buy, and resets, until *)
(* MaxSells further rows have been inserted into transactions.             *)
(***************************************************************************)
RealizedOrders ==
    SummarySells
    \cup {Order(<<"a">>, SELL, 200, 88000, VN), Order(<<"a">>, BUY, 100, 85000, VN)}

InitRealized ==
    /\ LET db == Recorded(EmptyDB, <<Order(<<"a">>, BUY, 100, 85000, VN),
                                     Order(<<"B">>, BUY, 100, 85000, VN)>>, 0)
       IN  /\ transactions = db.transactions
           /\ positions = db.positions
           /\ realized_pnl = db.realized_pnl
           /\ price_cache = db.price_cache
           /\ sqlite_sequence = db.sqlite_sequence
    /\ clock = 0
    /\ host_offset = 0
    /\ last = NoCall
    /\ NoConnections

RecordOrder(o) ==
    LET r == add_transaction(DB, o.ticker, o.type, o.quantity, RInt(o.price), o.market,
                             <<>>, clock)
    IN  /\ r.db.sqlite_sequence.transactions <= MaxSells + 2
        /\ Store(r.db)
        /\ last' = [op |-> "add_transaction", ticker |-> o.ticker, type |-> o.type,
                    quantity |-> o.quantity, price |-> RInt(o.price), market |-> o.market,
                    result |-> r.result]
        /\ UNCHANGED <<clock, host_offset, conns>>

NextRealized ==
    \/ \E o \in RealizedOrders : RecordOrder(o)
    \/ ClearAllData

SpecRealized == InitRealized /\ [][NextRealized]_vars

\* What get_realized_pnl_summary(ticker) returns when realized_pnl holds rows
SummaryOf(rows, ticker) ==
    get_realized_pnl_summary([EmptyDB EXCEPT !.realized_pnl = rows], ticker)

RealizedTickers(rows) == {rows[i].ticker : i \in 1..Len(rows)}

RECURSIVE SumRat(_, _)
\* The sum of f[t] over the tickers t of a set
SumRat(f, S) ==
    IF S = {} THEN RInt(0)
    ELSE LET t == CHOOSE x \in S : TRUE
         IN  RAdd(f[t], SumRat(f, S \ {t}))

RECURSIVE SumNat(_, _)
SumNat(f, S) ==
    IF S = {} THEN 0
    ELSE LET t == CHOOSE x \in S : TRUE
         IN  f[t] + SumNat(f, S \ {t})

\* The summary over all tickers is the field-wise sum of the summaries per ticker
SumOfPerTicker(rows) ==
    LET S == RealizedTickers(rows)
        all == SummaryOf(rows, <<>>)
        per == [t \in S |-> SummaryOf(rows, t)]
    IN  /\ all.total_pnl = SumRat([t \in S |-> per[t].total_pnl], S)
        /\ all.total_trades = SumNat([t \in S |-> per[t].total_trades], S)
        /\ all.winning_trades = SumNat([t \in S |-> per[t].winning_trades], S)
        /\ all.losing_trades = SumNat([t \in S |-> per[t].losing_trades], S)

(***************************************************************************)
(* C33: get_realized_pnl_summary().total_pnl is the sum of the             *)
(* realized_pnl values returned by the successful SELL calls since the     *)
(* last reset: it is 0 on an empty realized_pnl and after a reset, grows   *)
(* by the value a successful SELL returns, and is left as it was by every  *)
(* other call; and the summary over all tickers is the field-wise sum      *)
(* (total_pnl, total_trades, winning_trades, losing_trades) of the         *)
(* summaries per ticker.                                                   *)
(***************************************************************************)
C33_Step ==
    LET before == SummaryOf(realized_pnl, <<>>).total_pnl
        after == SummaryOf(realized_pnl', <<>>).total_pnl
    IN  /\ realized_pnl = <<>> => before = RInt(0)
        /\ SumOfPerTicker(realized_pnl)
        /\ SumOfPerTicker(realized_pnl')
        /\ IF IsSell(last') /\ last'.result.success
           THEN after = RAdd(before, last'.result.realized_pnl)
           ELSE IF last'.op = "clear_all_data" THEN after = RInt(0)
           ELSE after = before

C33_SummaryIsSumOfSells == [][C33_Step]_vars

\* both tickers were sold, one at a gain and one at a loss, and the last sell was
\* of the ticker already sold: the summary over all differs from either ticker's
C33_Witness ==
    /\ IsSell(last) /\ last.result.success
    /\ Cardinality(RealizedTickers(realized_pnl)) = 2
    /\ Len(realized_pnl) = 3
    /\ SummaryOf(realized_pnl, <<>>).winning_trades = 1
    /\ SummaryOf(realized_pnl, <<>>).losing_trades = 2
    /\ SummaryOf(realized_pnl, <<>>).total_pnl = RInt(-70000)
    /\ SummaryOf(realized_pnl, <<"a">>).total_pnl = RInt(-20000)


\* The Position, the transactions rows and the realized_pnl rows of ticker t
RowsOf(pos, trans, realized, t) ==
    [position |-> IF t \in DOMAIN pos THEN <<pos[t]>> ELSE <<>>,
     transactions |-> TickerRows(trans, t),
     realized_pnl |-> TickerRows(realized, t)]

(***************************************************************************)
(* C34: a buy or a sell on a ticker, successful or failed, leaves the      *)
(* Position, the transactions rows and the realized_pnl rows of every      *)
(* other ticker as they were.                                              *)
(***************************************************************************)
C34_Step ==
    (IsBuy(last') \/ IsSell(last')) =>
        \A t \in (KnownTickers(DB) \cup DOMAIN positions'
                  \cup RealizedTickers(realized_pnl')
                  \cup {transactions'[i].ticker : i \in 1..Len(transactions')})
                 \ {NormalizeTicker(last'.ticker)} :
            RowsOf(positions', transactions', realized_pnl', t)
                = RowsOf(positions, transactions, realized_pnl, t)

C34_OtherTickersUntouched == [][C34_Step]_vars

\* a second ticker is held while the first, bought after it, has been sold out
C34_Witness ==
    /\ IsSell(last) /\ last.result.success
    /\ Len(transactions) = 3
    /\ transactions[1].ticker # LastTicker
    /\ transactions[1].ticker \in DOMAIN positions
    /\ LastTicker \notin DOMAIN positions
    /\ Len(realized_pnl) = 1


(***************************************************************************)
(* C35: a price returned by get_current_price(ticker, market) was produced *)
(* by the adapter of that market: a price fetched for a symbol under one   *)
(* market is never returned for a lookup of the symbol under the other.    *)
(***************************************************************************)
C35_Step ==
    (PriceStep /\ lastRead'.price # NoPrice) =>
        lastRead'.price \in AdapterAnswers(lastRead'.market)

C35_PriceOfItsMarket == [][C35_Step]_vars


(***************************************************************************)
(* C36: in every reachable state, every transaction recorded for a ticker  *)
(* while it has its open Position carries the market tag of that Position: *)
(* a BUY or SELL with another market tag leaves no transactions row whose  *)
(* market disagrees with the Position's.                                   *)
(***************************************************************************)
C36_TransactionsCarryPositionMarket ==
    \A t \in DOMAIN positions :
        LET run == OpenRun(transactions, t)
        IN  \A i \in 1..Len(run) : run[i].market = positions[t].market


(***************************************************************************)
(* C37: the ticker is normalised on the read side as on the write side:    *)
(* for a raw ticker s in any letter case, with or without blanks around    *)
(* it, the transaction add_transaction(s, ...) recorded is returned by     *)
(* get_transaction_history(s), its realized_pnl row is counted by          *)
(* get_realized_pnl_summary(s), and get_current_price(s) looks the cache   *)
(* up under the ticker recorded.                                           *)
(***************************************************************************)
C37_ReadSideFindsRecorded ==
    ((IsBuy(last) \/ IsSell(last)) /\ last.result.success) =>
        LET s == last.ticker
            row == CHOOSE r \in {transactions[i] : i \in 1..Len(transactions)} :
                       r.id = last.result.transaction_id
        IN  /\ \A rows \in get_transaction_history(DB, s, DefaultLimit) :
                   \E k \in 1..Len(rows) : rows[k].id = row.id
            /\ IsSell(last) =>
                   get_realized_pnl_summary(DB, s).total_trades
                       = Len(TickerRows(realized_pnl, row.ticker))
            /\ \A m \in Markets : \A fetched \in AdapterAnswers(m) \ {NoPrice} :
                   DOMAIN get_current_price(DB, s, m, clock, host_offset, fetched).db.price_cache
                       = DOMAIN price_cache \cup {row.ticker}

====
